---- MODULE Spec2Model ----
(***************************************************************************)
(* Media generation executors of open-agent-builder: the image executor   *)
(* (src/lib/workflow/executors/image-gen.ts) and the Replicate video      *)
(* executor (src/unnamed/part_002), with the output normalisers they run  *)
(* on the previous node's output.                                         *)
(*                                                                         *)
(* JavaScript values are tagged records; JavaScript strings are sequences *)
(* of one-character strings, so that includes / toLowerCase / trim /      *)
(* substring are computed and not assumed.  Time is a millisecond clock   *)
(* that only the executor's own sleeps advance (provider latency 0 is the *)
(* worst case for every pacing property).                                 *)
(***************************************************************************)
EXTENDS Integers, Sequences, FiniteSets, TLC

(* ------------------------- JavaScript values ------------------------- *)

Undefined == [t |-> "undefined"]

Null == [t |-> "null"]

Str(s) == [t |-> "string", s |-> s]

Num(n) == [t |-> "number", n |-> n]

Bool(b) == [t |-> "boolean", b |-> b]

Arr(a) == [t |-> "array", a |-> a]

\* k: the own keys in enumeration order; v: key -> value
Obj(k, v) == [t |-> "object", k |-> k, v |-> v]

\* typeof x
TypeOf(x) == IF x.t \in {"null", "array", "object"} THEN "object" ELSE x.t

\* ToBoolean(x), as used by ||, && and if
Truthy(x) ==
  CASE x.t = "undefined" -> FALSE
    [] x.t = "null" -> FALSE
    [] x.t = "string" -> x.s # <<>>
    [] x.t = "number" -> x.n # 0
    [] x.t = "boolean" -> x.b
    [] OTHER -> TRUE

\* x || y
Or(x, y) == IF Truthy(x) THEN x ELSE y

\* Array.isArray(x)
IsArray(x) == x.t = "array"

\* x.key is a TypeError exactly when x is null or undefined
CanRead(x) == x.t \notin {"null", "undefined"}

\* x.key for a readable x (the keys read here are no built-in properties)
Prop(x, key) ==
  IF x.t = "object" /\ key \in DOMAIN x.v THEN x.v[key] ELSE Undefined

\* (key in x) for typeof x === 'object': a TypeError when x is null
CanIn(x) == x.t \in {"array", "object"}

HasIn(key, x) == x.t = "object" /\ key \in DOMAIN x.v

(* ------------------------------ strings ------------------------------ *)

Rep(c, n) == [j \in 1..n |-> c]

Digits == <<"0", "1", "2", "3", "4", "5", "6", "7", "8", "9">>

RECURSIVE NumStr(_)
\* Number.prototype.toString for a natural number
NumStr(n) == IF n < 10 THEN <<Digits[n + 1]>> ELSE NumStr(n \div 10) \o <<Digits[(n % 10) + 1]>>

UpperChars == <<"A", "B", "C", "D", "E", "F", "G", "H", "I", "J", "K", "L", "M",
                "N", "O", "P", "Q", "R", "S", "T", "U", "V", "W", "X", "Y", "Z">>

LowerChars == <<"a", "b", "c", "d", "e", "f", "g", "h", "i", "j", "k", "l", "m",
                "n", "o", "p", "q", "r", "s", "t", "u", "v", "w", "x", "y", "z">>

LowerChar(c) ==
  IF \E j \in 1..26 : UpperChars[j] = c
  THEN LowerChars[CHOOSE j \in 1..26 : UpperChars[j] = c]
  ELSE c

\* String.prototype.toLowerCase
ToLowerCase(s) == [j \in 1..Len(s) |-> LowerChar(s[j])]

\* The first index >= from at which pat occurs in s, 0 when there is none
IndexFrom(s, pat, from) ==
  LET hits == {j \in from..(Len(s) - Len(pat) + 1) : SubSeq(s, j, j + Len(pat) - 1) = pat}
  IN IF hits = {} THEN 0 ELSE CHOOSE j \in hits : \A h \in hits : j <= h

\* String.prototype.includes
Includes(s, pat) == IndexFrom(s, pat, 1) # 0

WhiteSpace == {" ", "\n", "\t", "\r"}

\* String.prototype.trim
Trim(s) ==
  LET keep == {j \in 1..Len(s) : s[j] \notin WhiteSpace}
  IN IF keep = {} THEN <<>>
     ELSE SubSeq(s, CHOOSE j \in keep : \A h \in keep : j <= h,
                    CHOOSE j \in keep : \A h \in keep : j >= h)

\* String.prototype.substring(0, n)
Substring0(s, n) == SubSeq(s, 1, IF n < Len(s) THEN n ELSE Len(s))

RECURSIVE JsToString(_)
\* x.toString() for a readable x (an array joins its elements with commas)
JsToString(x) ==
  CASE x.t = "string" -> x
    [] x.t = "number" -> Str(NumStr(x.n))
    [] x.t = "boolean" -> Str(IF x.b THEN <<"t", "r", "u", "e">> ELSE <<"f", "a", "l", "s", "e">>)
    [] x.t = "array" ->
         IF x.a = <<>> THEN Str(<<>>)
         ELSE LET head == IF CanRead(x.a[1]) THEN JsToString(x.a[1]).s ELSE <<>>
                  rest == JsToString(Arr(Tail(x.a))).s
              IN Str(IF Len(x.a) = 1 THEN head ELSE head \o <<",">> \o rest)
    [] OTHER -> Str(<<"[", "o", "b", "j", "e", "c", "t", " ", "O", "b", "j", "e", "c", "t", "]">>)

\* The backtick character (the atom stands for it: SANY reads no backtick in a string)
BACKTICK == "BACKTICK"

FENCE == <<BACKTICK, BACKTICK, BACKTICK>>

S_NEGATIVE_PROMPT == <<"n", "e", "g", "a", "t", "i", "v", "e", " ", "p", "r", "o", "m", "p", "t", ":">>

S_TECHNICAL_SPECIFICATIONS == <<"t", "e", "c", "h", "n", "i", "c", "a", "l", " ",
                                "s", "p", "e", "c", "i", "f", "i", "c", "a", "t", "i", "o", "n", "s">>

S_RATE_LIMIT == <<"r", "a", "t", "e", " ", "l", "i", "m", "i", "t">>

S_429 == <<"4", "2", "9">>

S_4_3 == <<"4", ":", "3">>

S_16_9 == <<"1", "6", ":", "9">>

S_CINEMATIC == <<"c", "i", "n", "e", "m", "a", "t", "i", "c">>

\* The template string "Shot " + n
S_SHOT(n) == <<"S", "h", "o", "t", " ">> \o NumStr(n)

MIN_BLOCK_LENGTH == 50

(* ----------------------- markdown extraction ------------------------- *)

RECURSIVE CodeBlocks(_, _)
\* The capture groups of the global regex: a fence and a newline, the
\* shortest text, a newline and a fence; matched from index from on
CodeBlocks(text, from) ==
  LET open == IndexFrom(text, FENCE \o <<"\n">>, from)
      close == IF open = 0 THEN 0 ELSE IndexFrom(text, <<"\n">> \o FENCE, open + 4)
  IN IF open = 0 \/ close = 0 THEN <<>>
     ELSE <<SubSeq(text, open + 4, close - 1)>> \o CodeBlocks(text, close + 4)

\* The blocks the loop keeps (it skips negative prompts, technical specs, short blocks)
KeptBlock(blockContent) ==
  ~ \/ Includes(ToLowerCase(blockContent), S_NEGATIVE_PROMPT)
    \/ Includes(ToLowerCase(blockContent), S_TECHNICAL_SPECIFICATIONS)
    \/ Len(blockContent) < MIN_BLOCK_LENGTH

KeptBlocks(text) ==
  LET blocks == [j \in 1..Len(CodeBlocks(text, 1)) |-> Trim(CodeBlocks(text, 1)[j])]
  IN SelectSeq(blocks, KeptBlock)

\* extractPromptsFromMarkdown of the image executor
extractPromptsFromMarkdown(text) ==
  [j \in 1..Len(KeptBlocks(text)) |->
     [shotNumber |-> Num(j), prompt |-> Str(KeptBlocks(text)[j]),
      aspectRatio |-> Str(S_4_3), style |-> Str(S_CINEMATIC)]]

\* extractPromptsFromMarkdown of the video executor
extractVideoPromptsFromMarkdown(text) ==
  [j \in 1..Len(KeptBlocks(text)) |->
     [shotNumber |-> Num(j), prompt |-> Str(KeptBlocks(text)[j]),
      sourceImage |-> Undefined, aspectRatio |-> Str(S_16_9)]]

(* --------------------------- normalisers ----------------------------- *)

\* A test that finds no fence in any text
NeverFenced(text) == FALSE

\* lastOutput.includes of three backticks
HasFence(text) == Includes(text, FENCE)

S_DEFAULT_IMAGE_PROMPT ==
  <<"c", "i", "n", "e", "m", "a", "t", "i", "c", " ", "p", "h", "o", "t", "o", ",", " ", "p",
    "r", "o", "f", "e", "s", "s", "i", "o", "n", "a", "l", " ", "l", "i", "g", "h", "t", "i",
    "n", "g", ",", " ", "4", ":", "3", " ", "a", "s", "p", "e", "c", "t", " ", "r", "a", "t",
    "i", "o">>

S_DEFAULT_VIDEO_PROMPT ==
  <<"c", "i", "n", "e", "m", "a", "t", "i", "c", " ", "e", "s", "t", "a", "b", "l", "i", "s",
    "h", "i", "n", "g", " ", "s", "h", "o", "t", ",", " ", "p", "r", "o", "f", "e", "s", "s",
    "i", "o", "n", "a", "l", " ", "l", "i", "g", "h", "t", "i", "n", "g">>

\* A normaliser's result: the work items it returns, or a TypeError raised
Returned(items) == [raised |-> FALSE, items |-> items]

Raised == [raised |-> TRUE, items |-> <<>>]

\* a.map(f) returns: f reads a property of every element, a TypeError for a
\* null or undefined element
Mappable(a) == \A j \in 1..Len(a) : CanRead(a[j])

\* The test of the property scan: an array whose first element is an object with a prompt key
HoldsPrompts(value) ==
  /\ IsArray(value)
  /\ Len(value.a) > 0
  /\ TypeOf(value.a[1]) = "object"
  /\ HasIn("prompt", value.a[1])

\* The same test raises: typeof null is 'object' and ('prompt' in null) is a TypeError
ScanRaises(value) ==
  /\ IsArray(value)
  /\ Len(value.a) > 0
  /\ TypeOf(value.a[1]) = "object"
  /\ ~CanIn(value.a[1])

\* A scan that goes on to the last property that passes the test
ScanStopLast(x) ==
  LET stops == {j \in 1..Len(x.k) : HoldsPrompts(x.v[x.k[j]]) \/ ScanRaises(x.v[x.k[j]])}
  IN IF stops = {} THEN 0 ELSE CHOOSE j \in stops : \A h \in stops : j >= h

\* The position in Object.keys(x) at which the scan stops, 0 when it runs through
ScanStop(x) ==
  LET stops == {j \in 1..Len(x.k) : HoldsPrompts(x.v[x.k[j]]) \/ ScanRaises(x.v[x.k[j]])}
  IN IF stops = {} THEN 0 ELSE CHOOSE j \in stops : \A h \in stops : j <= h

ImageItemOfElement(item, index) ==
  [shotNumber |-> Or(Prop(item, "shotNumber"), Num(index)),
   prompt |-> Or(Prop(item, "prompt"), JsToString(item)),
   aspectRatio |-> Or(Prop(item, "aspectRatio"), Str(S_4_3)),
   style |-> Or(Prop(item, "style"), Str(S_CINEMATIC))]

ImageItemOfPrompt(item, index) ==
  [shotNumber |-> Or(Prop(item, "shotNumber"), Num(index)),
   prompt |-> Prop(item, "prompt"),
   aspectRatio |-> Or(Prop(item, "aspectRatio"), Str(S_4_3)),
   style |-> Or(Prop(item, "style"), Str(S_CINEMATIC))]

extractPrompts(x) ==
  IF IsArray(x) THEN (LET arr == x.a IN IF Mappable(arr) THEN Returned([j \in 1..Len(arr) |-> ImageItemOfElement(arr[j], j)]) ELSE Raised)
  ELSE IF Truthy(x) /\ TypeOf(x) = "object" /\ IsArray(Prop(x, "imagePrompts"))
  THEN (LET arr == Prop(x, "imagePrompts").a IN IF Mappable(arr) THEN Returned([j \in 1..Len(arr) |-> ImageItemOfPrompt(arr[j], j)]) ELSE Raised)
  ELSE IF Truthy(x) /\ TypeOf(x) = "object" /\ ScanStop(x) # 0
  THEN IF ScanRaises(x.v[x.k[ScanStop(x)]]) THEN Raised
       ELSE (LET arr == x.v[x.k[ScanStop(x)]].a IN IF Mappable(arr) THEN Returned([j \in 1..Len(arr) |-> ImageItemOfPrompt(arr[j], j)]) ELSE Raised)
  ELSE IF Truthy(x) /\ TypeOf(x) = "object" /\ HasIn("prompt", x)
  THEN Returned(<<ImageItemOfPrompt(x, 1)>>)
  ELSE IF TypeOf(x) = "string"
  THEN IF HasFence(x.s) /\ Len(extractPromptsFromMarkdown(x.s)) > 0
       THEN Returned(extractPromptsFromMarkdown(x.s))
       ELSE Returned(<<[shotNumber |-> Num(1), prompt |-> x,
                        aspectRatio |-> Str(S_4_3), style |-> Str(S_CINEMATIC)]>>)
  ELSE Returned(<<[shotNumber |-> Num(1), prompt |-> Str(S_DEFAULT_IMAGE_PROMPT),
                   aspectRatio |-> Str(S_4_3), style |-> Str(S_CINEMATIC)]>>)

\* A filter that keeps every entry
EveryImage(img) == TRUE

\* img => img.success && img.localPath
UsableImage(img) == Truthy(Prop(img, "success")) /\ Truthy(Prop(img, "localPath"))

VideoItemOfImage(img, index) ==
  [shotNumber |-> Or(Prop(img, "shotNumber"), Num(index)),
   prompt |-> Or(Prop(img, "originalPrompt"), Str(S_SHOT(index))),
   sourceImage |-> Prop(img, "localPath"),
   aspectRatio |-> Or(Prop(img, "aspectRatio"), Str(S_16_9))]

VideoItemOfElement(item, index) ==
  [shotNumber |-> Or(Prop(item, "shotNumber"), Num(index)),
   prompt |-> Or(Prop(item, "prompt"), JsToString(item)),
   sourceImage |-> Or(Or(Prop(item, "sourceImage"), Prop(item, "localPath")), Prop(item, "image")),
   aspectRatio |-> Or(Prop(item, "aspectRatio"), Str(S_16_9))]

VideoItemOfImagePrompt(item, index) ==
  [shotNumber |-> Or(Prop(item, "shotNumber"), Num(index)),
   prompt |-> Prop(item, "prompt"),
   sourceImage |-> Or(Prop(item, "sourceImage"), Prop(item, "image")),
   aspectRatio |-> Or(Prop(item, "aspectRatio"), Str(S_16_9))]

VideoItemOfPrompt(item, index) ==
  [shotNumber |-> Or(Prop(item, "shotNumber"), Num(index)),
   prompt |-> Prop(item, "prompt"),
   sourceImage |-> Or(Or(Prop(item, "sourceImage"), Prop(item, "localPath")), Prop(item, "image")),
   aspectRatio |-> Or(Prop(item, "aspectRatio"), Str(S_16_9))]

extractVideoPrompts(x) ==
  IF Truthy(x) /\ TypeOf(x) = "object" /\ IsArray(Prop(x, "images"))
  THEN IF \A j \in 1..Len(Prop(x, "images").a) : CanRead(Prop(x, "images").a[j])
       THEN (LET arr == SelectSeq(Prop(x, "images").a, UsableImage) IN IF Mappable(arr) THEN Returned([j \in 1..Len(arr) |-> VideoItemOfImage(arr[j], j)]) ELSE Raised)
       ELSE Raised
  ELSE IF IsArray(x) THEN (LET arr == x.a IN IF Mappable(arr) THEN Returned([j \in 1..Len(arr) |-> VideoItemOfElement(arr[j], j)]) ELSE Raised)
  ELSE IF Truthy(x) /\ TypeOf(x) = "object" /\ IsArray(Prop(x, "imagePrompts"))
  THEN (LET arr == Prop(x, "imagePrompts").a IN IF Mappable(arr) THEN Returned([j \in 1..Len(arr) |-> VideoItemOfImagePrompt(arr[j], j)]) ELSE Raised)
  ELSE IF Truthy(x) /\ TypeOf(x) = "object" /\ ScanStop(x) # 0
  THEN IF ScanRaises(x.v[x.k[ScanStop(x)]]) THEN Raised
       ELSE (LET arr == x.v[x.k[ScanStop(x)]].a IN IF Mappable(arr) THEN Returned([j \in 1..Len(arr) |-> VideoItemOfPrompt(arr[j], j)]) ELSE Raised)
  ELSE IF Truthy(x) /\ TypeOf(x) = "object" /\ HasIn("prompt", x)
  THEN Returned(<<VideoItemOfImagePrompt(x, 1)>>)
  ELSE IF TypeOf(x) = "string"
  THEN IF HasFence(x.s) /\ Len(extractVideoPromptsFromMarkdown(x.s)) > 0
       THEN Returned(extractVideoPromptsFromMarkdown(x.s))
       ELSE Returned(<<[shotNumber |-> Num(1), prompt |-> x,
                        sourceImage |-> Undefined, aspectRatio |-> Str(S_16_9)]>>)
  ELSE Returned(<<[shotNumber |-> Num(1), prompt |-> Str(S_DEFAULT_VIDEO_PROMPT),
                   sourceImage |-> Undefined, aspectRatio |-> Str(S_16_9)]>>)

(* ----------------------- thrown values, files ------------------------ *)

\* An Error object carrying a message
Error(message) == [hasMessage |-> TRUE, message |-> message]

\* A thrown or rejected value that is no Error: it has no message property
NonError == [hasMessage |-> FALSE, message |-> <<>>]

\* error.message
MessageOf(error) == IF error.hasMessage THEN Str(error.message) ELSE Undefined

S_UNEXPECTED_OUTPUT == <<"U", "n", "e", "x", "p", "e", "c", "t", "e", "d", " ", "o", "u", "t", "p", "u", "t", " ", "f", "o", "r", "m", "a", "t", " ", "f", "r", "o", "m", " ", "R", "e", "p", "l", "i", "c", "a", "t", "e">>

S_PREDICTION_FAILED == <<"P", "r", "e", "d", "i", "c", "t", "i", "o", "n", " ", "f", "a", "i", "l", "e", "d">>

S_RATE_LIMIT_EXCEEDED == <<"r", "a", "t", "e", " ", "l", "i", "m", "i", "t", " ", "e", "x", "c", "e", "e", "d", "e", "d">>

S_RATE_LIMIT_CAPITAL == <<"R", "a", "t", "e", " ", "l", "i", "m", "i", "t", " ", "e", "x", "c", "e", "e", "d", "e", "d">>

S_STATUS_429 == <<"f", "a", "i", "l", "e", "d", " ", "w", "i", "t", "h", " ", "s", "t", "a", "t", "u", "s", " ", "4", "2", "9">>

S_DOWNLOAD_FAILED == <<"F", "a", "i", "l", "e", "d", " ", "t", "o", " ", "d", "o", "w", "n", "l", "o", "a", "d", ":", " ", "H", "T", "T", "P", " ", "4", "0", "4">>

S_ENOENT == <<"E", "N", "O", "E", "N", "T", ":", " ", "n", "o", " ", "s", "u", "c", "h", " ", "f", "i", "l", "e">>

S_CANNOT_READ == <<"C", "a", "n", "n", "o", "t", " ", "r", "e", "a", "d", " ", "p", "r", "o", "p", "e", "r", "t", "i", "e", "s", " ", "o", "f", " ", "u", "n", "d", "e", "f", "i", "n", "e", "d", " ", "(", "r", "e", "a", "d", "i", "n", "g", " ", "'", "s", "u", "b", "s", "t", "r", "i", "n", "g", "'", ")">>

S_NOT_A_FUNCTION == <<"p", "r", "o", "m", "p", "t", ".", "s", "u", "b", "s", "t", "r", "i", "n", "g", " ", "i", "s", " ", "n", "o", "t", " ", "a", " ", "f", "u", "n", "c", "t", "i", "o", "n">>

\* What replicate.run may reject with
RunRejections ==
  {Error(S_PREDICTION_FAILED), Error(S_RATE_LIMIT_EXCEEDED), Error(S_RATE_LIMIT_CAPITAL),
   Error(S_STATUS_429), NonError}

\* A file name built from a prefix, a shot number and Date.now(); '' is EmptyPath
FileName(kind, shot, ts) == [kind |-> kind, shot |-> shot, ts |-> ts]

EmptyPath == FileName("", Undefined, 0)

NonEmptyPath(path) == path.kind # ""

(* ------------------------- upstream values --------------------------- *)

\* Batches of over MaxSmallItems items meet at most MaxCapFailures failures
MaxSmallItems == 3

MaxCapFailures == 1

\* Batch sizes run up to the cap plus MaxOver
MaxOver == 1

MAX_IMAGES == 20

MAX_CLIPS == 10

\* The longest prompt text the image executor sends
PROMPT_LIMIT == 4000

\* A prompt one character longer than the limit, ending in a character of its
\* own
LONG_PROMPT == Str(Rep("x", PROMPT_LIMIT) \o <<"y">>)

PATH_A == Str(<<"/", "a", ".", "p", "n", "g">>)

PATH_B == Str(<<"/", "b", ".", "p", "n", "g">>)

\* { prompt: 'p<j>' }
PromptObject(j) == Obj(<<"prompt">>, "prompt" :> Str(<<"p">> \o NumStr(j)))

\* { shotNumber, prompt }
ShotObject(shot, j) ==
  Obj(<<"shotNumber", "prompt">>,
      ("shotNumber" :> Num(shot)) @@ ("prompt" :> Str(<<"p">> \o NumStr(j))))

\* An entry of an image batch outcome, as the image executor records it
ImageEntry(shot, path, success) ==
  Obj(<<"shotNumber", "localPath", "originalPrompt", "success">>,
      ("shotNumber" :> Num(shot)) @@ ("localPath" :> path)
        @@ ("originalPrompt" :> Str(<<"p">> \o NumStr(shot)))
        @@ ("success" :> Bool(success)))

\* An entry of an image batch outcome that carries no shot number
UnnumberedEntry(j, path, success) ==
  Obj(<<"localPath", "originalPrompt", "success">>,
      ("localPath" :> path) @@ ("originalPrompt" :> Str(<<"q">> \o NumStr(j)))
        @@ ("success" :> Bool(success)))

\* An image batch outcome next to a prompt of its own: a failed entry, then
\* two saved ones without shot numbers
PROMPT_AND_IMAGES ==
  Obj(<<"prompt", "images">>,
      ("prompt" :> Str(<<"o", "n", "e">>))
        @@ ("images" :> Arr(<<UnnumberedEntry(1, Str(<<>>), FALSE), UnnumberedEntry(2, PATH_A, TRUE),
                              UnnumberedEntry(3, PATH_B, TRUE)>>)))

\* Three fenced blocks: a short one, a negative prompt, a valid prompt
MARKDOWN_THREE_BLOCKS ==
  FENCE \o <<"\n">> \o Rep("s", 5) \o <<"\n">> \o FENCE \o <<"\n">>
    \o FENCE \o <<"\n", "N">> \o Tail(S_NEGATIVE_PROMPT) \o Rep("b", 50) \o <<"\n">> \o FENCE \o <<"\n">>
    \o FENCE \o <<"\n", " ">> \o Rep("a", 50) \o <<" ", "\n">> \o FENCE

\* A fenced block that is too short to be kept
MARKDOWN_SHORT_BLOCK == <<"x", "\n">> \o FENCE \o <<"\n">> \o Rep("s", 5) \o <<"\n">> \o FENCE

\* An object with two properties that hold prompt objects
TWO_PROMPT_ARRAYS ==
  Obj(<<"scenes", "shots">>,
      ("scenes" :> Arr(<<PromptObject(3)>>)) @@ ("shots" :> Arr(<<PromptObject(1), PromptObject(2)>>)))

\* One fenced block whose opening fence carries a language tag; its text is
\* long enough and names neither negative prompts nor technical specifications
MARKDOWN_TAGGED_BLOCK ==
  FENCE \o <<"t", "e", "x", "t", "\n">> \o Rep("a", 60) \o <<"\n">> \o FENCE

SmallInputs ==
  { Null, Undefined,
    Str(<<"a", " ", "c", "a", "r">>),
    Str(MARKDOWN_THREE_BLOCKS),
    Str(MARKDOWN_TAGGED_BLOCK),
    TWO_PROMPT_ARRAYS,
    Str(MARKDOWN_SHORT_BLOCK),
    Arr(<<>>),
    Arr(<<PromptObject(1), PromptObject(2)>>),
    Arr(<<Str(<<"s", "k", "y">>), Num(7), ShotObject(5, 3)>>),
    Arr(<<PromptObject(1), Null>>),
    Obj(<<"images">>, "images" :> Arr(<<ImageEntry(1, PATH_A, TRUE), ImageEntry(2, Str(<<>>), FALSE),
                                         ImageEntry(3, PATH_B, TRUE)>>)),
    Obj(<<"images">>, "images" :> Arr(<<ImageEntry(1, Str(<<>>), FALSE)>>)),
    Obj(<<"imagePrompts">>, "imagePrompts" :> Arr(<<PromptObject(1), Obj(<<>>, <<>>)>>)),
    Obj(<<"imagePrompts">>, "imagePrompts" :> Arr(<<>>)),
    Obj(<<"title", "shots">>, ("title" :> Str(<<"t">>)) @@ ("shots" :> Arr(<<PromptObject(1), ShotObject(1, 2)>>))),
    Obj(<<"meta", "shots">>, ("meta" :> Arr(<<Null>>)) @@ ("shots" :> Arr(<<PromptObject(1)>>))),
    Obj(<<"prompt">>, "prompt" :> Str(<<"o", "n", "e">>)),
    Obj(<<"prompt">>, "prompt" :> LONG_PROMPT),
    PROMPT_AND_IMAGES,
    Obj(<<"approvedImages">>, "approvedImages" :> Arr(<<ImageEntry(1, PATH_A, TRUE), ImageEntry(2, PATH_B, FALSE)>>)),
    Obj(<<"selectedImages">>, "selectedImages" :> Arr(<<ImageEntry(4, PATH_A, TRUE)>>)) }

\* The upstream values the Runway executor is run on
RunwayInputs ==
  { Arr(<<PromptObject(1), PromptObject(2)>>),
    Obj(<<"prompt">>, "prompt" :> LONG_PROMPT),
    PROMPT_AND_IMAGES,
    Obj(<<"images">>, "images" :> Arr(<<ImageEntry(1, PATH_A, TRUE), ImageEntry(2, PATH_B, TRUE)>>)) }

\* An array of n prompt objects
PromptArray(n) == Arr([j \in 1..n |-> PromptObject(j)])

LargeInputs(cap) == {PromptArray(n) : n \in cap..(cap + MaxOver)}

(* ------------------------------ state -------------------------------- *)

VARIABLES
  executor,          \* "image": executeImageGenNode; "video": executeVideoGenNode
  hasKey,            \* a Replicate key is in apiKeys or in the environment
  model,             \* the model profile: modelKey (image), config.model || 'minimax' (video)
  duration,          \* videoGenConfig.duration || 5, in seconds
  inputMode,         \* videoGenConfig.inputMode || 'auto'
  disk,              \* the source-image paths that exist on disk
  lastOutput,        \* state.variables.lastOutput
  budget,            \* failures the environment may still inject
  pc,                \* where the executor is: start, loop, run, download, ffmpeg, done, raised
  rejection,         \* what the executor's promise rejected with, "none" while it has not
  prompts,           \* the normaliser's work items
  promptsToGenerate, \* prompts.slice(0, cap)
  i,                 \* the loop index
  results,           \* results (image) / clips (video)
  successCount,
  failCount,
  now,               \* Date.now(), in ms since the executor started
  inFlight,          \* the items with a provider request or a download outstanding
  calls,             \* the replicate.run calls made: item, time, results pushed before, input
  recordedAt,        \* recordedAt[k]: the time results[k] was pushed
  concatList,        \* the concat list file exists
  concatContent,     \* the lines written to the concat list: the clip paths, in order
  toolEvent,         \* how the concatenation went: none, writeFailed, threw, end, error
  ffmpegRuns,        \* the number of ffmpeg runs started
  pollCount,         \* Runway: the polls made for the current clip's task
  task,              \* Runway: the status last retrieved for the current clip's task
  outcome,           \* the value the executor resolved with
  peerFiles,         \* the file paths a batch running at the same time has written
  stored,            \* useWorkflow: the workflow the store returns for workflowId
  hookPc,            \* useWorkflow: unmounted, loading, loaded (from the store), new
  workflow,          \* useWorkflow: the workflow state
  rendered,          \* useWorkflow: the workflow the callbacks of the last render closed over
  timers,            \* useWorkflow: the pending timeouts
  saveTimeout,       \* useWorkflow: saveTimeout.current, 0 for null
  requests,          \* useWorkflow: the POST /api/workflows requests sent
  saves,             \* useWorkflow: the saveWorkflow / saveWorkflowImmediate calls made
  graph,             \* engine: the edges of the workflow being run
  variables,         \* engine: state.variables
  current,           \* engine: the node to execute next
  runStatus,         \* engine: idle, running, ended (normally), failed (GraphError)
  executed,          \* engine: the nodes whose handler has run, in order
  workflowId,        \* load effect: the workflowId the hook was last rendered with
  loads,             \* load effect: the loads started, with their id, position and path
  loading            \* load effect: the loading flag

vars == <<executor, hasKey, model, duration, inputMode, disk, lastOutput, budget, pc, rejection, prompts,
          promptsToGenerate, i, results, successCount, failCount, now, inFlight, calls,
          recordedAt, concatList, concatContent, toolEvent, ffmpegRuns, pollCount, task,
          outcome, peerFiles, stored, hookPc, workflow, rendered, timers, saveTimeout,
          requests, saves, graph, variables, current, runStatus, executed, workflowId,
          loads, loading>>

\* What Init fixes for the whole run
setup == <<executor, hasKey, model, duration, inputMode, disk, lastOutput>>

\* The state of the load effect of useWorkflow
loader == <<workflowId, loads, loading>>

\* No load effect has run
LoaderIdle ==
  /\ workflowId = "unset"
  /\ loads = <<>>
  /\ loading = TRUE

\* The state of the execution engine
engine == <<graph, variables, current, runStatus, executed>>

\* The state of the useWorkflow hook
hook == <<stored, hookPc, workflow, rendered, timers, saveTimeout, requests, saves>>

\* What the steps of a media executor leave alone
beside == <<peerFiles, hook, engine, loader>>

\* No run of the engine is under way
EngineIdle ==
  /\ graph = {}
  /\ variables = [budget_tier |-> "none"]
  /\ current = "none"
  /\ runStatus = "idle"
  /\ executed = <<>>

\* No workflow: null
NoWorkflow == [nodes |-> {}, edges |-> {}, rev |-> -1]

\* The hook is not mounted
HookIdle ==
  /\ stored = NoWorkflow
  /\ hookPc = "unmounted"
  /\ workflow = NoWorkflow
  /\ rendered = NoWorkflow
  /\ timers = {}
  /\ saveTimeout = 0
  /\ requests = <<>>
  /\ saves = <<>>

NoOutcome == [returned |-> FALSE]

\* The state of the polling loop of the Runway generateSingleClip
poll == <<pollCount, task>>

\* The executors that produce video clips: through Replicate, through Runway
VideoExecutors == {"video", "runway"}

IsVideo == executor \in VideoExecutors

\* const maxPolls = 120
MAX_POLLS == 120

\* setTimeout(resolve, 5000) between two retrievals
POLL_INTERVAL_MS == 5000

\* A task turns terminal at its first retrieval, within its first MaxEarlyPoll
\* polls, at its last poll, or not at all
MaxEarlyPoll == 2

IMAGE_DELAY_MS == 1000

IMAGE_COOL_DOWN_MS == 10000

VIDEO_DELAY_MS == 2000

VIDEO_COOL_DOWN_MS == 30000

DEFAULT_DURATION == 5

\* A batch that is never cut to the cap
SliceUncapped(items, cap) == items

\* A batch cut to its last cap items
SliceTail(items, cap) ==
  SubSeq(items, IF Len(items) < cap THEN 1 ELSE Len(items) - cap + 1, Len(items))

\* prompts.slice(0, cap)
Slice(items, cap) == SubSeq(items, 1, IF Len(items) < cap THEN Len(items) ELSE cap)

\* A request that is left outstanding when the executor moves on
NotAwaited(flight, item) == flight

\* The executor resumes after an await only when the awaited request has settled
AwaitSettled(flight, item) == flight \ {item}

InputModes == {"text", "image", "auto"}

\* FLUX_MODELS[modelKey].costPerImage, in millionths of a dollar
FLUX_MODELS == ("flux-dev" :> 25000) @@ ("flux-1.1-pro" :> 40000) @@ ("flux-schnell" :> 3000)

VideoModels == {"minimax", "gen3a_turbo"}

\* The models an executor may be configured with; the Runway executor runs
\* with its default, config.model || 'gen3a_turbo'
Models(kind) ==
  IF kind = "image" THEN DOMAIN FLUX_MODELS
  ELSE IF kind = "runway" THEN {"gen3a_turbo"} ELSE VideoModels

\* The clip durations a video node may be configured with; the image
\* executor has none
Durations(kind) ==
  IF kind = "image" THEN {0}
  ELSE IF kind = "runway" THEN {DEFAULT_DURATION}
  ELSE {DEFAULT_DURATION, 2 * DEFAULT_DURATION}

\* model === 'gen3a_turbo' ? 0.05 : 0.025, in millionths of a dollar
costPerSecond(m) == IF m = "gen3a_turbo" THEN 50000 ELSE 25000

\* 10^n
Pow10(n) == IF n = 0 THEN 1 ELSE IF n = 1 THEN 10 ELSE IF n = 2 THEN 100
            ELSE IF n = 3 THEN 1000 ELSE IF n = 4 THEN 10000 ELSE 100000

\* x.toFixed(digits) of an amount x >= 0 given in millionths: the nearest
\* multiple of 10^-digits, the larger one on a tie.  n counts those multiples
ToFixed(x, digits) ==
  [digits |-> digits, n |-> (x + (Pow10(6 - digits) \div 2)) \div Pow10(6 - digits)]

Init ==
  /\ executor \in {"image"} \cup VideoExecutors
  /\ hasKey \in BOOLEAN
  /\ model \in Models(executor)
  /\ duration \in Durations(executor)
  /\ \/ /\ lastOutput \in (IF executor = "runway" THEN RunwayInputs ELSE SmallInputs)
        /\ budget = MaxSmallItems
        /\ inputMode \in (IF IsVideo THEN InputModes ELSE {"auto"})
        /\ disk \in (IF IsVideo THEN {{}, {PATH_A}} ELSE {{}})
     \/ /\ executor # "runway"
        /\ lastOutput \in LargeInputs(IF executor = "image" THEN MAX_IMAGES ELSE MAX_CLIPS)
        /\ budget = MaxCapFailures
        /\ inputMode = "auto"
        /\ disk = {}
  /\ pc = "start"
  /\ rejection = "none"
  /\ prompts = <<>>
  /\ promptsToGenerate = <<>>
  /\ i = 0
  /\ results = <<>>
  /\ successCount = 0
  /\ failCount = 0
  /\ now = 0
  /\ inFlight = {}
  /\ calls = <<>>
  /\ recordedAt = <<>>
  /\ concatList = FALSE
  /\ concatContent = <<>>
  /\ toolEvent = "none"
  /\ ffmpegRuns = 0
  /\ pollCount = 0
  /\ task = "none"
  /\ peerFiles = {}
  /\ HookIdle
  /\ EngineIdle
  /\ LoaderIdle
  /\ outcome = NoOutcome

(* -------------------------- image executor --------------------------- *)

\* A key check that always passes
KeyNeverMissing == FALSE

\* !replicateKey (Runway: !runwayKey): neither apiKeys nor the environment
\* holds a credential
KeyMissing == ~hasKey

\* The key check, the normaliser and the cap, up to the loop
ImageStart ==
  /\ UNCHANGED poll
  /\ executor = "image"
  /\ pc = "start"
  /\ pc' = IF ~KeyMissing /\ ~extractPrompts(lastOutput).raised THEN "loop" ELSE "raised"
  /\ rejection' = IF KeyMissing THEN "config"
                  ELSE IF extractPrompts(lastOutput).raised THEN "normaliser" ELSE "none"
  /\ prompts' = IF ~KeyMissing THEN extractPrompts(lastOutput).items ELSE <<>>
  /\ promptsToGenerate' = Slice(prompts', MAX_IMAGES)
  /\ UNCHANGED <<setup, beside, budget, i, results, successCount, failCount, now, inFlight, calls,
                 recordedAt, concatList, concatContent, toolEvent, ffmpegRuns, outcome>>

\* prompt.length > 4000 ? prompt.substring(0, 4000) : prompt
TruncatedPrompt(prompt) == IF Len(prompt) > PROMPT_LIMIT THEN Substring0(prompt, PROMPT_LIMIT) ELSE prompt

\* One loop iteration up to the await of replicate.run; the log line before the
\* try reads prompt.substring, a TypeError for a prompt that is no string
ImageIterate ==
  /\ UNCHANGED poll
  /\ executor = "image"
  /\ pc = "loop"
  /\ i < Len(promptsToGenerate)
  /\ LET item == promptsToGenerate[i + 1]
     IN IF item.prompt.t # "string"
        THEN /\ pc' = "raised"
             /\ rejection' = "prompt"
             /\ UNCHANGED <<calls, inFlight>>
        ELSE /\ pc' = "run"
             /\ calls' = Append(calls, [item |-> i + 1, at |-> now, after |-> Len(results),
                                        prompt |-> TruncatedPrompt(item.prompt.s),
                                        image |-> FALSE])
             /\ inFlight' = inFlight \cup {i + 1}
             /\ UNCHANGED rejection
  /\ UNCHANGED <<setup, beside, budget, prompts, promptsToGenerate, i, results, successCount,
                 failCount, now, recordedAt, concatList, concatContent, toolEvent, ffmpegRuns, outcome>>

\* A loop that stays on the item it has just processed
SameIndex(k) == k

\* for (let i = 0; i < promptsToGenerate.length; i++)
NextIndex(k) == k + 1

ImageFailure(item, error) ==
  [shotNumber |-> item.shotNumber, url |-> EmptyPath, localPath |-> EmptyPath,
   originalPrompt |-> item.prompt, duration |-> 0, success |-> FALSE,
   estimatedCost |-> ToFixed(0, 4), error |-> MessageOf(error)]

ImageSuccess(item, filename) ==
  [shotNumber |-> item.shotNumber, url |-> filename, localPath |-> filename,
   originalPrompt |-> item.prompt, duration |-> 0, success |-> TRUE,
   estimatedCost |-> ToFixed(FLUX_MODELS[model], 4), error |-> Undefined]

\* error.message.includes('rate limit')
ImageRateLimited(error) == Includes(error.message, S_RATE_LIMIT)

\* The catch block: push the failed result, count it, cool down on a rate limit.
\* error.message.includes is a TypeError when the thrown value has no message
ImageCatch(error) ==
  /\ results' = Append(results, ImageFailure(promptsToGenerate[i + 1], error))
  /\ recordedAt' = Append(recordedAt, now)
  /\ failCount' = failCount + 1
  /\ inFlight' = AwaitSettled(inFlight, i + 1)
  /\ IF error.hasMessage
     THEN /\ now' = IF ImageRateLimited(error) THEN now + IMAGE_COOL_DOWN_MS ELSE now
          /\ i' = NextIndex(i)
          /\ pc' = "loop"
          /\ UNCHANGED rejection
     ELSE /\ pc' = "raised"
          /\ rejection' = "catch"
          /\ UNCHANGED <<now, i>>
  /\ UNCHANGED <<setup, beside, prompts, promptsToGenerate, successCount, calls, concatList, concatContent, toolEvent,
                 ffmpegRuns, outcome>>

\* replicate.run resolves with an array that starts with a ReadableStream
ImageRunResolves ==
  /\ UNCHANGED poll
  /\ executor = "image"
  /\ pc = "run"
  /\ pc' = "download"
  /\ UNCHANGED <<setup, beside, budget, rejection, prompts, promptsToGenerate, i, results,
                 successCount, failCount, now, inFlight, calls, recordedAt, concatList, concatContent, toolEvent,
                 ffmpegRuns, outcome>>

\* replicate.run resolves with anything else
ImageRunUnexpected ==
  /\ UNCHANGED poll
  /\ executor = "image"
  /\ pc = "run"
  /\ budget > 0
  /\ budget' = budget - 1
  /\ ImageCatch(Error(S_UNEXPECTED_OUTPUT))

ImageRunRejects ==
  /\ UNCHANGED poll
  /\ executor = "image"
  /\ pc = "run"
  /\ budget > 0
  /\ budget' = budget - 1
  /\ \E error \in RunRejections : ImageCatch(error)

\* streamToBuffer and writeFileSync succeed: the result is pushed, then the
\* 1 s delay unless this was the last item
ImageSaved ==
  /\ UNCHANGED poll
  /\ executor = "image"
  /\ pc = "download"
  /\ LET item == promptsToGenerate[i + 1]
         filename == FileName("shot", Or(item.shotNumber, Num(i + 1)), now)
     IN results' = Append(results, ImageSuccess(item, filename))
  /\ recordedAt' = Append(recordedAt, now)
  /\ successCount' = successCount + 1
  /\ inFlight' = AwaitSettled(inFlight, i + 1)
  /\ now' = IF i < Len(promptsToGenerate) - 1 THEN now + IMAGE_DELAY_MS ELSE now
  /\ i' = NextIndex(i)
  /\ pc' = "loop"
  /\ UNCHANGED <<setup, beside, budget, rejection, prompts, promptsToGenerate, failCount, calls,
                 concatList, concatContent, toolEvent, ffmpegRuns, outcome>>

\* streamToBuffer rejects or writeFileSync throws
ImageSaveFails ==
  /\ UNCHANGED poll
  /\ executor = "image"
  /\ pc = "download"
  /\ budget > 0
  /\ budget' = budget - 1
  /\ ImageCatch(Error(S_DOWNLOAD_FAILED))

ImageReturn ==
  /\ UNCHANGED poll
  /\ executor = "image"
  /\ pc = "loop"
  /\ i >= Len(promptsToGenerate)
  /\ pc' = "done"
  /\ outcome' = [returned |-> TRUE, images |-> results, totalGenerated |-> successCount,
                  totalFailed |-> failCount, totalRequested |-> Len(promptsToGenerate),
                  estimatedTotalCost |-> ToFixed(successCount * FLUX_MODELS[model], 4)]
  /\ UNCHANGED <<setup, beside, budget, rejection, prompts, promptsToGenerate, i, results,
                 successCount, failCount, now, inFlight, calls, recordedAt, concatList, concatContent, toolEvent,
                 ffmpegRuns>>

ImageNext ==
  \/ ImageStart
  \/ ImageIterate
  \/ ImageRunResolves
  \/ ImageRunUnexpected
  \/ ImageRunRejects
  \/ ImageSaved
  \/ ImageSaveFails
  \/ ImageReturn

(* -------------------------- video executor --------------------------- *)

VideoItemOfApproved(img, index) ==
  [shotNumber |-> Or(Prop(img, "shotNumber"), Num(index)),
   prompt |-> Or(Prop(img, "originalPrompt"), Str(S_SHOT(index))),
   sourceImage |-> Prop(img, "localPath"),
   aspectRatio |-> Str(S_16_9)]

\* output.approvedImages && Array.isArray(output.approvedImages)
HasImageList(x, key) ==
  Truthy(x) /\ TypeOf(x) = "object" /\ Truthy(Prop(x, key)) /\ IsArray(Prop(x, key))

\* Work items taken from the normaliser whatever lists the value carries
NormalisedPrompts(x) == extractVideoPrompts(x)

\* The work items of executeVideoGenNode: approvedImages, else selectedImages,
\* else the normaliser
VideoPrompts(x) ==
  IF HasImageList(x, "approvedImages")
  THEN (LET arr == Prop(x, "approvedImages").a IN IF Mappable(arr) THEN Returned([j \in 1..Len(arr) |-> VideoItemOfApproved(arr[j], j)]) ELSE Raised)
  ELSE IF HasImageList(x, "selectedImages")
  THEN (LET arr == Prop(x, "selectedImages").a IN IF Mappable(arr) THEN Returned([j \in 1..Len(arr) |-> VideoItemOfApproved(arr[j], j)]) ELSE Raised)
  ELSE extractVideoPrompts(x)

\* The Runway executor takes its work items from the normaliser alone
WorkItems(x) == IF executor = "runway" THEN extractVideoPrompts(x) ELSE VideoPrompts(x)

VideoStart ==
  /\ UNCHANGED poll
  /\ IsVideo
  /\ pc = "start"
  /\ pc' = IF ~KeyMissing /\ ~WorkItems(lastOutput).raised THEN "loop" ELSE "raised"
  /\ rejection' = IF KeyMissing THEN "config"
                  ELSE IF WorkItems(lastOutput).raised THEN "normaliser" ELSE "none"
  /\ prompts' = IF ~KeyMissing THEN WorkItems(lastOutput).items ELSE <<>>
  /\ promptsToGenerate' = Slice(prompts', MAX_CLIPS)
  /\ UNCHANGED <<setup, beside, budget, i, results, successCount, failCount, now, inFlight, calls,
                 recordedAt, concatList, concatContent, toolEvent, ffmpegRuns, outcome>>

\* A choice that never takes the image
AlwaysText(item) == FALSE

\* inputMode === 'image' || (inputMode === 'auto' && sourceImage && fs.existsSync(sourceImage))
ShouldUseImage(item) ==
  \/ inputMode = "image"
  \/ inputMode = "auto" /\ Truthy(item.sourceImage) /\ item.sourceImage \in disk

\* shouldUseImage && options.sourceImage
UsesImage(item) == ShouldUseImage(item) /\ Truthy(item.sourceImage)

\* A failed clip that is marked as a success
ClipMarkedSuccess(item, message) ==
  [shotNumber |-> item.shotNumber, url |-> EmptyPath, localPath |-> EmptyPath,
   originalPrompt |-> item.prompt, duration |-> 0, success |-> TRUE,
   estimatedCost |-> ToFixed(0, 2), error |-> message]

ClipFailure(item, message) ==
  [shotNumber |-> item.shotNumber, url |-> EmptyPath, localPath |-> EmptyPath,
   originalPrompt |-> item.prompt, duration |-> 0, success |-> FALSE,
   estimatedCost |-> ToFixed(0, 2), error |-> message]

ClipSuccess(item, filename) ==
  [shotNumber |-> item.shotNumber, url |-> filename, localPath |-> filename,
   originalPrompt |-> item.prompt, duration |-> duration, success |-> TRUE,
   estimatedCost |-> ToFixed(duration * costPerSecond(model), 2), error |-> Undefined]

\* error.message.includes('rate limit') || error.message.includes('429')
VideoRateLimited(error) == Includes(error.message, S_RATE_LIMIT) \/ Includes(error.message, S_429)

\* What prompt.substring throws for a prompt that is no string
SubstringTypeError(prompt) ==
  Error(IF CanRead(prompt) THEN S_NOT_A_FUNCTION ELSE S_CANNOT_READ)

\* generateSingleClip returned a clip: push it, count it, then the 2 s delay
\* unless this was the last item
VideoClipReturned(clip) ==
  /\ results' = Append(results, clip)
  /\ recordedAt' = Append(recordedAt, now)
  /\ successCount' = IF clip.success THEN successCount + 1 ELSE successCount
  /\ failCount' = IF clip.success THEN failCount ELSE failCount + 1
  /\ inFlight' = AwaitSettled(inFlight, i + 1)
  /\ now' = IF i < Len(promptsToGenerate) - 1 THEN now + VIDEO_DELAY_MS ELSE now
  /\ i' = NextIndex(i)
  /\ pc' = "loop"
  /\ UNCHANGED <<setup, beside, rejection, prompts, promptsToGenerate, concatList, concatContent, toolEvent, ffmpegRuns,
                 outcome>>

\* generateSingleClip rejected: the catch block of the loop pushes a failed
\* clip and backs off 30 s on a rate limit
VideoCatch(error) ==
  /\ results' = Append(results, ClipFailure(promptsToGenerate[i + 1], MessageOf(error)))
  /\ recordedAt' = Append(recordedAt, now)
  /\ failCount' = failCount + 1
  /\ inFlight' = AwaitSettled(inFlight, i + 1)
  /\ IF error.hasMessage
     THEN /\ now' = IF VideoRateLimited(error) THEN now + VIDEO_COOL_DOWN_MS ELSE now
          /\ i' = NextIndex(i)
          /\ pc' = "loop"
          /\ UNCHANGED rejection
     ELSE /\ pc' = "raised"
          /\ rejection' = "catch"
          /\ UNCHANGED <<now, i>>
  /\ UNCHANGED <<setup, beside, prompts, promptsToGenerate, successCount, concatList, concatContent, toolEvent, ffmpegRuns,
                 outcome>>

\* One loop iteration, into generateSingleClip up to its first await.  Its log
\* line before the try reads prompt.substring: that TypeError rejects
\* generateSingleClip.  Inside the try, reading a source image that is not on
\* disk throws, and the clip comes back failed without a provider call
VideoIterate ==
  /\ UNCHANGED poll
  /\ IsVideo
  /\ pc = "loop"
  /\ i < Len(promptsToGenerate)
  /\ LET item == promptsToGenerate[i + 1]
     IN IF item.prompt.t # "string"
        THEN VideoCatch(SubstringTypeError(item.prompt)) /\ UNCHANGED <<budget, calls>>
        ELSE IF UsesImage(item) /\ item.sourceImage \notin disk
        THEN VideoClipReturned(ClipFailure(item, Str(S_ENOENT))) /\ UNCHANGED <<budget, calls>>
        ELSE /\ pc' = IF executor = "runway" THEN "create" ELSE "run"
             /\ calls' = Append(calls, [item |-> i + 1, at |-> now, after |-> Len(results),
                                        prompt |-> item.prompt.s, image |-> UsesImage(item)])
             /\ inFlight' = inFlight \cup {i + 1}
             /\ UNCHANGED <<setup, beside, budget, rejection, prompts, promptsToGenerate, i, results,
                            successCount, failCount, now, recordedAt, concatList, concatContent, toolEvent, ffmpegRuns,
                            outcome>>

\* replicate.run resolves with a URL, a non-empty array or an object with a url
VideoRunResolves ==
  /\ UNCHANGED poll
  /\ executor = "video"
  /\ pc = "run"
  /\ pc' = "download"
  /\ UNCHANGED <<setup, beside, budget, rejection, prompts, promptsToGenerate, i, results,
                 successCount, failCount, now, inFlight, calls, recordedAt, concatList, concatContent, toolEvent,
                 ffmpegRuns, outcome>>

VideoRunUnexpected ==
  /\ UNCHANGED poll
  /\ executor = "video"
  /\ pc = "run"
  /\ budget > 0
  /\ budget' = budget - 1
  /\ calls' = calls
  /\ VideoClipReturned(ClipFailure(promptsToGenerate[i + 1], Str(S_UNEXPECTED_OUTPUT)))

\* replicate.run rejects: the catch of generateSingleClip returns a failed clip
VideoRunRejects ==
  /\ UNCHANGED poll
  /\ executor = "video"
  /\ pc = "run"
  /\ budget > 0
  /\ budget' = budget - 1
  /\ calls' = calls
  /\ \E error \in RunRejections :
       VideoClipReturned(ClipFailure(promptsToGenerate[i + 1], MessageOf(error)))

VideoDownloaded ==
  /\ UNCHANGED poll
  /\ IsVideo
  /\ pc = "download"
  /\ UNCHANGED <<budget, calls>>
  /\ LET item == promptsToGenerate[i + 1]
     IN VideoClipReturned(ClipSuccess(item, FileName("clip", Or(item.shotNumber, Num(1)), now)))

VideoDownloadFails ==
  /\ UNCHANGED poll
  /\ IsVideo
  /\ pc = "download"
  /\ budget > 0
  /\ budget' = budget - 1
  /\ calls' = calls
  /\ VideoClipReturned(ClipFailure(promptsToGenerate[i + 1], Str(S_DOWNLOAD_FAILED)))

(* ------------------------- Runway polling ---------------------------- *)

S_GENERATION_FAILED == <<"V", "i", "d", "e", "o", " ", "g", "e", "n", "e", "r", "a", "t", "i", "o", "n", " ", "f", "a", "i", "l", "e", "d", ":", " ", "U", "n", "k", "n", "o", "w", "n", " ", "e", "r", "r", "o", "r">>

S_TIMED_OUT == <<"V", "i", "d", "e", "o", " ", "g", "e", "n", "e", "r", "a", "t", "i", "o", "n", " ", "t", "i", "m", "e", "d", " ", "o", "u", "t", " ", "a", "f", "t", "e", "r", " ", "6", "0", "0", " ", "s", "e", "c", "o", "n", "d", "s">>

S_NO_OUTPUT == <<"N", "o", " ", "o", "u", "t", "p", "u", "t", " ", "U", "R", "L", " ", "r", "e", "t", "u", "r", "n", "e", "d", " ", "f", "r", "o", "m", " ", "R", "u", "n", "w", "a", "y">>

\* What a retrieval may report: RUNNING stands for every non-terminal status
TaskStatuses == {"RUNNING", "SUCCEEDED", "FAILED"}

\* task.status !== 'SUCCEEDED' && task.status !== 'FAILED'
NonTerminal(status) == status # "SUCCEEDED" /\ status # "FAILED"

\* The statuses the retrieval after count polls may report
StatusesAt(count) ==
  IF count <= MaxEarlyPoll \/ count = MAX_POLLS THEN TaskStatuses ELSE {"RUNNING"}

\* What task holds when tasks.retrieve rejected instead of reporting a status
Rejected == "REJECTED"

\* A loop test that never gives up
PollsForever(count) == TRUE

\* pollCount < maxPolls
MayPollAgain(count) == count < MAX_POLLS

\* imageToVideo.create resolves and the first tasks.retrieve reports a status
RunwayTaskCreated ==
  /\ executor = "runway"
  /\ pc = "create"
  /\ pc' = "poll"
  /\ pollCount' = 0
  /\ task' \in StatusesAt(0)
  /\ UNCHANGED <<setup, beside, budget, rejection, prompts, promptsToGenerate, i, results,
                 successCount, failCount, now, inFlight, calls, recordedAt, concatList,
                 concatContent, toolEvent, ffmpegRuns, outcome>>

\* imageToVideo.create or the first tasks.retrieve rejects
RunwayCreateRejects ==
  /\ executor = "runway"
  /\ pc = "create"
  /\ budget > 0
  /\ budget' = budget - 1
  /\ UNCHANGED <<calls, poll>>
  /\ \E error \in RunRejections :
       VideoClipReturned(ClipFailure(promptsToGenerate[i + 1], MessageOf(error)))

\* One turn of the polling loop: wait 5 s, retrieve, count
RunwayPoll ==
  /\ executor = "runway"
  /\ pc = "poll"
  /\ task # Rejected
  /\ NonTerminal(task)
  /\ MayPollAgain(pollCount)
  /\ now' = now + POLL_INTERVAL_MS
  /\ pollCount' = pollCount + 1
  /\ \/ task' \in StatusesAt(pollCount') /\ UNCHANGED budget
     \/ /\ pollCount' <= MaxEarlyPoll
        /\ budget > 0
        /\ budget' = budget - 1
        /\ task' = Rejected
  /\ UNCHANGED <<setup, beside, rejection, prompts, promptsToGenerate, i, results,
                 successCount, failCount, inFlight, calls, recordedAt, concatList,
                 concatContent, toolEvent, ffmpegRuns, outcome, pc>>

\* tasks.retrieve rejected inside the loop: generateSingleClip catches it
RunwayPollRejects ==
  /\ executor = "runway"
  /\ pc = "poll"
  /\ task = Rejected
  /\ UNCHANGED <<budget, calls, poll>>
  /\ VideoClipReturned(ClipFailure(promptsToGenerate[i + 1], Str(S_PREDICTION_FAILED)))

\* The loop is left with status FAILED: generateSingleClip throws and catches
RunwayTaskFailed ==
  /\ executor = "runway"
  /\ pc = "poll"
  /\ task = "FAILED"
  /\ UNCHANGED <<budget, calls, poll>>
  /\ VideoClipReturned(ClipFailure(promptsToGenerate[i + 1], Str(S_GENERATION_FAILED)))

\* The loop is left with the polls used up and the task still not terminal
RunwayTimedOut ==
  /\ executor = "runway"
  /\ pc = "poll"
  /\ task # Rejected
  /\ NonTerminal(task)
  /\ ~MayPollAgain(pollCount)
  /\ UNCHANGED <<budget, calls, poll>>
  /\ VideoClipReturned(ClipFailure(promptsToGenerate[i + 1], Str(S_TIMED_OUT)))

\* The loop is left with status SUCCEEDED: the output is downloaded
RunwayTaskSucceeded ==
  /\ executor = "runway"
  /\ pc = "poll"
  /\ task = "SUCCEEDED"
  /\ pc' = "download"
  /\ UNCHANGED <<setup, beside, budget, rejection, prompts, promptsToGenerate, i, results,
                 successCount, failCount, now, inFlight, calls, recordedAt, concatList,
                 concatContent, toolEvent, ffmpegRuns, outcome, poll>>

\* The task succeeded and carries no output URL: generateSingleClip throws
\* and catches
RunwayNoOutput ==
  /\ executor = "runway"
  /\ pc = "poll"
  /\ task = "SUCCEEDED"
  /\ budget > 0
  /\ budget' = budget - 1
  /\ UNCHANGED <<calls, poll>>
  /\ VideoClipReturned(ClipFailure(promptsToGenerate[i + 1], Str(S_NO_OUTPUT)))

RunwayNext ==
  \/ RunwayTaskCreated
  \/ RunwayCreateRejects
  \/ RunwayPoll
  \/ RunwayPollRejects
  \/ RunwayTaskFailed
  \/ RunwayTimedOut
  \/ RunwayTaskSucceeded
  \/ RunwayNoOutput

(* ----------------------------- stitching ----------------------------- *)

\* A filter that keeps every clip
AnyClip(c) == TRUE

\* clips.filter(c => c.success && c.localPath)
IsSuccessfulClip(c) == c.success /\ NonEmptyPath(c.localPath)

SuccessfulClips(clips) == SelectSeq(clips, IsSuccessfulClip)

RECURSIVE SumDuration(_)
\* reduce((sum, clip) => sum + clip.duration, 0)
SumDuration(clips) == IF clips = <<>> THEN 0 ELSE Head(clips).duration + SumDuration(Tail(clips))

\* A deliverable that is there although nothing was stitched
PhantomVideo == [defined |-> TRUE, url |-> EmptyPath, localPath |-> EmptyPath, duration |-> 0]

\* let finalVideo: {...} | undefined
NoVideo == [defined |-> FALSE, url |-> EmptyPath, localPath |-> EmptyPath, duration |-> 0]

\* clips.filter(c => c.success)
Succeeded(c) == c.success

\* clips.filter(c => c.success).reduce((sum, c) => sum + c.duration, 0)
totalVideoDuration(clips) == SumDuration(SelectSeq(clips, Succeeded))

\* An outcome that loses the clips
OutcomeWithoutClips(finalVideo, stitchingStatus) ==
  [returned |-> TRUE, clips |-> <<>>, finalVideo |-> finalVideo,
   totalGenerated |-> successCount, totalFailed |-> failCount,
   estimatedTotalCost |-> ToFixed(0, 2),
   stitchingStatus |-> stitchingStatus]

VideoOutcome(finalVideo, stitchingStatus) ==
  [returned |-> TRUE, clips |-> results, finalVideo |-> finalVideo,
   totalGenerated |-> successCount, totalFailed |-> failCount,
   estimatedTotalCost |-> ToFixed(totalVideoDuration(results) * costPerSecond(model), 2),
   stitchingStatus |-> stitchingStatus]

\* A status that starts out as success
StatusSuccess == "success"

\* let stitchingStatus = 'skipped'
InitialStatus == "skipped"

\* A concat list in reverse batch order
ReversedContent(clips) == [k \in 1..Len(clips) |-> clips[Len(clips) + 1 - k].localPath]

\* successfulClips.map(clip => file '<clip.localPath>'): one line per clip, in order
ConcatContent(clips) == [k \in 1..Len(clips) |-> clips[k].localPath]

\* The loop is over and stitchClipsWithFFmpeg goes on to concatenate
Concatenates ==
  /\ IsVideo
  /\ pc = "loop"
  /\ i >= Len(promptsToGenerate)
  /\ successCount > 0
  /\ Len(SuccessfulClips(results)) >= 2

\* After the loop with no clip or one clip to deliver: nothing is concatenated
VideoReturnUnstitched ==
  /\ UNCHANGED poll
  /\ IsVideo
  /\ pc = "loop"
  /\ i >= Len(promptsToGenerate)
  /\ ~(successCount > 0 /\ Len(SuccessfulClips(results)) >= 2)
  /\ pc' = "done"
  /\ LET one == successCount > 0 /\ Len(SuccessfulClips(results)) = 1
         clip == SuccessfulClips(results)[1]
     IN outcome' = IF one
                   THEN VideoOutcome([defined |-> TRUE, url |-> clip.url,
                                      localPath |-> clip.localPath, duration |-> clip.duration],
                                     "success")
                   ELSE VideoOutcome(NoVideo, InitialStatus)
  /\ UNCHANGED <<setup, beside, budget, rejection, prompts, promptsToGenerate, i, results,
                 successCount, failCount, now, inFlight, calls, recordedAt, concatList,
                 concatContent, toolEvent, ffmpegRuns>>

\* Two or more clips: the concat list is written and ffmpeg is started
VideoStitchStart ==
  /\ UNCHANGED poll
  /\ Concatenates
  /\ concatList' = TRUE
  /\ concatContent' = ConcatContent(SuccessfulClips(results))
  /\ ffmpegRuns' = ffmpegRuns + 1
  /\ pc' = "ffmpeg"
  /\ UNCHANGED <<setup, beside, budget, rejection, prompts, promptsToGenerate, i, results,
                 successCount, failCount, now, inFlight, calls, recordedAt, toolEvent,
                 outcome>>

\* Writing the concat list throws: stitchClipsWithFFmpeg rejects, and the
\* file may or may not have been created by then
VideoStitchWriteFails ==
  /\ UNCHANGED poll
  /\ Concatenates
  /\ concatList' \in BOOLEAN
  /\ toolEvent' = "writeFailed"
  /\ pc' = "done"
  /\ outcome' = VideoOutcome(NoVideo, "failed")
  /\ UNCHANGED <<setup, beside, budget, rejection, prompts, promptsToGenerate, i, results,
                 successCount, failCount, now, inFlight, calls, recordedAt, concatContent,
                 ffmpegRuns>>

\* The list is written, then building or starting the ffmpeg command throws
\* inside the promise executor: the promise rejects and no handler runs
VideoFfmpegStartThrows ==
  /\ UNCHANGED poll
  /\ Concatenates
  /\ concatList' = TRUE
  /\ concatContent' = ConcatContent(SuccessfulClips(results))
  /\ toolEvent' = "threw"
  /\ pc' = "done"
  /\ outcome' = VideoOutcome(NoVideo, "failed")
  /\ UNCHANGED <<setup, beside, budget, rejection, prompts, promptsToGenerate, i, results,
                 successCount, failCount, now, inFlight, calls, recordedAt, ffmpegRuns>>

\* ffmpeg's end event
VideoFfmpegEnd ==
  /\ UNCHANGED poll
  /\ IsVideo
  /\ pc = "ffmpeg"
  /\ concatList' = FALSE
  /\ toolEvent' = "end"
  /\ pc' = "done"
  /\ outcome' = VideoOutcome([defined |-> TRUE, url |-> FileName("final-video", Undefined, now),
                               localPath |-> FileName("final-video", Undefined, now),
                               duration |-> SumDuration(SuccessfulClips(results))],
                              "success")
  /\ UNCHANGED <<setup, beside, budget, rejection, prompts, promptsToGenerate, i, results,
                 successCount, failCount, now, inFlight, calls, recordedAt, concatContent,
                 ffmpegRuns>>

\* ffmpeg's error event
VideoFfmpegError ==
  /\ UNCHANGED poll
  /\ IsVideo
  /\ pc = "ffmpeg"
  /\ concatList' = FALSE
  /\ toolEvent' = "error"
  /\ pc' = "done"
  /\ outcome' = VideoOutcome(NoVideo, "failed")
  /\ UNCHANGED <<setup, beside, budget, rejection, prompts, promptsToGenerate, i, results,
                 successCount, failCount, now, inFlight, calls, recordedAt, concatContent,
                 ffmpegRuns>>

VideoNext ==
  \/ VideoStart
  \/ VideoIterate
  \/ VideoRunResolves
  \/ VideoRunUnexpected
  \/ VideoRunRejects
  \/ VideoDownloaded
  \/ VideoDownloadFails
  \/ VideoReturnUnstitched
  \/ VideoStitchStart
  \/ VideoStitchWriteFails
  \/ VideoFfmpegStartThrows
  \/ VideoFfmpegEnd
  \/ VideoFfmpegError

Next == ImageNext \/ VideoNext \/ RunwayNext

Spec == Init /\ [][Next]_vars

\* The Runway executor alone
RunwayInit == Init /\ executor = "runway"

\* The steps of the Runway executor: the loop and the stitching it shares
\* with the Replicate video executor, and its own task polling
RunwayExecutorNext ==
  \/ VideoStart
  \/ VideoIterate
  \/ RunwayNext
  \/ VideoDownloaded
  \/ VideoDownloadFails
  \/ VideoReturnUnstitched
  \/ VideoStitchStart
  \/ VideoStitchWriteFails
  \/ VideoFfmpegStartThrows
  \/ VideoFfmpegEnd
  \/ VideoFfmpegError

\* An executor that can take a step takes one: its awaits settle and its
\* timers fire
RunwayFairSpec == RunwayInit /\ [][RunwayExecutorNext]_vars /\ WF_vars(RunwayExecutorNext)

(* --------------------------- approved images -------------------------- *)

\* The outputs of an approval node the Replicate video executor is run on: an
\* approved list with a failed entry next to an image batch outcome, an
\* approved list next to a selected list, a selected list alone next to image
\* prompts, an approved value that is no array, an empty approved list, and
\* an image batch outcome without any list
ApprovalInputs ==
  { Obj(<<"images", "approvedImages">>,
        ("images" :> Arr(<<ImageEntry(7, PATH_A, TRUE)>>))
          @@ ("approvedImages" :> Arr(<<ImageEntry(2, PATH_B, TRUE), ImageEntry(1, Str(<<>>), FALSE),
                                        UnnumberedEntry(3, PATH_A, TRUE)>>))),
    Obj(<<"selectedImages", "approvedImages">>,
        ("selectedImages" :> Arr(<<ImageEntry(4, PATH_A, TRUE)>>))
          @@ ("approvedImages" :> Arr(<<ImageEntry(5, PATH_B, TRUE)>>))),
    Obj(<<"imagePrompts", "selectedImages">>,
        ("imagePrompts" :> Arr(<<PromptObject(1)>>))
          @@ ("selectedImages" :> Arr(<<ImageEntry(4, PATH_A, FALSE), ImageEntry(6, PATH_B, TRUE)>>))),
    Obj(<<"approvedImages", "selectedImages">>,
        ("approvedImages" :> Str(<<"a", "l", "l">>))
          @@ ("selectedImages" :> Arr(<<ImageEntry(4, PATH_A, TRUE)>>))),
    Obj(<<"approvedImages", "images">>,
        ("approvedImages" :> Arr(<<>>)) @@ ("images" :> Arr(<<ImageEntry(7, PATH_A, TRUE)>>))),
    Obj(<<"images">>, "images" :> Arr(<<ImageEntry(1, PATH_A, TRUE), ImageEntry(2, Str(<<>>), FALSE)>>)) }

\* The Replicate video executor with a credential, run after an approval node
ApprovalInit ==
  /\ executor = "video"
  /\ hasKey = TRUE
  /\ model \in Models(executor)
  /\ duration \in Durations(executor)
  /\ lastOutput \in ApprovalInputs
  /\ budget = MaxSmallItems
  /\ inputMode \in InputModes
  /\ disk \in {{}, {PATH_A}}
  /\ pc = "start"
  /\ rejection = "none"
  /\ prompts = <<>>
  /\ promptsToGenerate = <<>>
  /\ i = 0
  /\ results = <<>>
  /\ successCount = 0
  /\ failCount = 0
  /\ now = 0
  /\ inFlight = {}
  /\ calls = <<>>
  /\ recordedAt = <<>>
  /\ concatList = FALSE
  /\ concatContent = <<>>
  /\ toolEvent = "none"
  /\ ffmpegRuns = 0
  /\ pollCount = 0
  /\ task = "none"
  /\ peerFiles = {}
  /\ HookIdle
  /\ EngineIdle
  /\ LoaderIdle
  /\ outcome = NoOutcome

ApprovalSpec == ApprovalInit /\ [][VideoNext]_vars

(* ----------------------------- fair batches --------------------------- *)

\* A batch of the image executor or of the Replicate video executor, with a
\* credential
BatchInit ==
  /\ Init
  /\ executor \in {"image", "video"}
  /\ hasKey
  /\ inputMode = "auto"
  /\ lastOutput \in {Arr(<<PromptObject(1), PromptObject(2)>>), PromptArray(MAX_IMAGES + 1)}

BatchNext == ImageNext \/ VideoNext

\* Every provider call, download and sleep of the batch returns: an executor
\* that can take a step takes one
BatchFairSpec == BatchInit /\ [][BatchNext]_vars /\ WF_vars(BatchNext)

(* ------------------------- concurrent batches ------------------------- *)

\* The files a concurrent batch is let write
MaxPeerFiles == 1

\* The media executor is between its start and its end
Running == pc \notin {"start", "done", "raised"}

\* The names the video executor gives its files: clip-<shot>-<ms>.mp4,
\* concat-<ms>.txt, final-video-<ms>.mp4
PeerNames(ms) ==
  {FileName("clip", Num(1), ms), FileName("concat", Undefined, ms),
   FileName("final-video", Undefined, ms)}

\* A second run of the video executor, in the same output directory, writes a
\* file: it names it after Date.now() as this run does
PeerWrites ==
  /\ executor = "video"
  /\ Running
  /\ Cardinality(peerFiles) < MaxPeerFiles
  /\ \E name \in PeerNames(now) : peerFiles' = peerFiles \cup {name}
  /\ UNCHANGED <<hook, engine, loader, setup, budget, pc, rejection, prompts, promptsToGenerate, i, results,
                 successCount, failCount, now, inFlight, calls, recordedAt, concatList,
                 concatContent, toolEvent, ffmpegRuns, poll, outcome>>

\* The Replicate video executor with a short batch and every source image on
\* disk, next to a second run
ConcurrentInit ==
  /\ Init
  /\ executor = "video"
  /\ hasKey
  /\ lastOutput \in RunwayInputs
  /\ inputMode = "auto"

ConcurrentNext == VideoNext \/ PeerWrites

ConcurrentSpec == ConcurrentInit /\ [][ConcurrentNext]_vars

(* --------------------------- useWorkflow ------------------------------ *)

\* The saveWorkflow and saveWorkflowImmediate calls of a run
MaxSaves == 2

\* The clock is watched for MaxTicks steps of HookStepMs
MaxTicks == 4

\* setTimeout(..., 1000)
DEBOUNCE_MS == 1000

\* The clock is looked at twice per debounce interval
HookStepMs == DEBOUNCE_MS \div 2

\* The media executors' state, which the hook does not touch
mediaState == <<setup, budget, pc, rejection, prompts, promptsToGenerate, i, results,
                successCount, failCount, inFlight, calls, recordedAt, concatList,
                concatContent, toolEvent, ffmpegRuns, poll, outcome, peerFiles>>

\* No media executor runs
MediaIdle ==
  /\ executor = "none"
  /\ hasKey = FALSE
  /\ model = "none"
  /\ duration = 0
  /\ inputMode = "auto"
  /\ disk = {}
  /\ lastOutput = Undefined
  /\ budget = 0
  /\ pc = "idle"
  /\ rejection = "none"
  /\ prompts = <<>>
  /\ promptsToGenerate = <<>>
  /\ i = 0
  /\ results = <<>>
  /\ successCount = 0
  /\ failCount = 0
  /\ inFlight = {}
  /\ calls = <<>>
  /\ recordedAt = <<>>
  /\ concatList = FALSE
  /\ concatContent = <<>>
  /\ toolEvent = "none"
  /\ ffmpegRuns = 0
  /\ pollCount = 0
  /\ task = "none"
  /\ outcome = NoOutcome
  /\ peerFiles = {}

\* An edge from node source to node target
Edge(source, target) == [source |-> source, target |-> target]

\* The workflows the store may hold: a sound one, one with an edge to a node
\* that is gone, one whose only edge comes from a node that is gone
StoredWorkflows ==
  { [nodes |-> {"start", "a"}, edges |-> {Edge("start", "a")}, rev |-> 0],
    [nodes |-> {"start", "a"}, edges |-> {Edge("start", "a"), Edge("a", "ghost")}, rev |-> 0],
    [nodes |-> {"start"}, edges |-> {Edge("ghost", "start")}, rev |-> 0] }

\* EdgeValidator.clean(nodes, edges): the edges that reference existing node
\* ids are kept, the others are removed and counted
cleanupInvalidEdges(nodes, edges) ==
  LET kept == {e \in edges : e.source \in nodes /\ e.target \in nodes}
  IN [nodes |-> nodes, edges |-> kept, removedCount |-> Cardinality(edges) - Cardinality(kept)]

\* A load that keeps the stored topology as it is
LoadedAsStored(wf) == wf

\* const cleaned = cleanupInvalidEdges(wf.nodes, wf.edges);
\* if (cleaned.removedCount > 0) wf = { ...wf, nodes: cleaned.nodes, edges: cleaned.edges }
LoadedWorkflow(wf) ==
  LET cleaned == cleanupInvalidEdges(wf.nodes, wf.edges)
  IN IF cleaned.removedCount > 0
     THEN [wf EXCEPT !.nodes = cleaned.nodes, !.edges = cleaned.edges]
     ELSE wf

\* A fallback that sets no workflow
NothingCreated == NoWorkflow

\* createNewWorkflow: a start node and no edge
NewWorkflow == [nodes |-> {"node_start"}, edges |-> {}, rev |-> 0]

\* The hook is mounted with a workflowId: the load effect starts
HookInit ==
  /\ MediaIdle
  /\ now = 0
  /\ stored \in StoredWorkflows
  /\ hookPc = "loading"
  /\ workflow = NoWorkflow
  /\ rendered = NoWorkflow
  /\ timers = {}
  /\ saveTimeout = 0
  /\ requests = <<>>
  /\ saves = <<>>
  /\ EngineIdle
  /\ LoaderIdle

\* Both fetches resolve and the workflow is found: it is validated and set
HookLoadResolves ==
  /\ hookPc = "loading"
  /\ hookPc' = "loaded"
  /\ workflow' = LoadedWorkflow(stored)
  /\ UNCHANGED <<mediaState, engine, loader, now, stored, rendered, timers, saveTimeout, requests, saves>>

\* The workflow is not in the list, or a fetch rejects: createNewWorkflow
HookLoadFails ==
  /\ hookPc = "loading"
  /\ hookPc' = "new"
  /\ workflow' = NewWorkflow
  /\ UNCHANGED <<mediaState, engine, loader, now, stored, rendered, timers, saveTimeout, requests, saves>>

\* The component renders again: its callbacks close over the current state
HookRenders ==
  /\ hookPc \in {"loaded", "new"}
  /\ rendered # workflow
  /\ rendered' = workflow
  /\ UNCHANGED <<mediaState, engine, loader, now, stored, hookPc, workflow, timers, saveTimeout, requests, saves>>

\* The partial workflows saveWorkflow is called with
Updates ==
  { [kind |-> "none", value |-> {}],
    [kind |-> "nodes", value |-> {"start", "a", "b"}],
    [kind |-> "edges", value |-> {Edge("start", "a"), Edge("a", "b")}] }

\* { ...workflow, ...updates, updatedAt }: rev stands for updatedAt
Updated(wf, updates, rev) ==
  [nodes |-> IF updates.kind = "nodes" THEN updates.value ELSE wf.nodes,
   edges |-> IF updates.kind = "edges" THEN updates.value ELSE wf.edges,
   rev |-> rev]

\* A call that leaves the pending timeout running
NotCleared(pending, id) == pending

\* if (saveTimeout.current) clearTimeout(saveTimeout.current)
Cleared(pending, id) == {t \in pending : t.id # id}

\* saveWorkflow(updates): the state is set and the save is put off by 1 s
SaveWorkflow ==
  /\ hookPc \in {"loaded", "new"}
  /\ rendered # NoWorkflow
  /\ Len(saves) < MaxSaves
  /\ \E updates \in Updates :
       LET updated == Updated(rendered, updates, Len(saves) + 1)
           id == Len(saves) + 1
       IN /\ workflow' = updated
          /\ timers' = Cleared(timers, saveTimeout)
                         \cup {[id |-> id, deadline |-> now + DEBOUNCE_MS, payload |-> updated]}
          /\ saveTimeout' = id
          /\ saves' = Append(saves, [at |-> now, base |-> rendered, state |-> updated,
                                     updates |-> updates.kind,
                                     immediate |-> FALSE, completed |-> TRUE,
                                     returned |-> Undefined])
  /\ UNCHANGED <<mediaState, engine, loader, now, stored, hookPc, rendered, requests>>

\* A call that reports success whatever happened
AlwaysSaved(completes) == Bool(TRUE)

\* try { ...; await persistWorkflow(updated); return true } catch { return false }
SaveResult(completes) == Bool(completes)

\* saveWorkflowImmediate(updates): the pending timeout is cleared and the
\* workflow is persisted at once; the request completes or throws
SaveWorkflowImmediate ==
  /\ hookPc \in {"loaded", "new"}
  /\ rendered # NoWorkflow
  /\ Len(saves) < MaxSaves
  /\ \E updates \in Updates, completes \in BOOLEAN :
       LET updated == Updated(rendered, updates, Len(saves) + 1)
       IN /\ workflow' = updated
          /\ requests' = Append(requests, [at |-> now, payload |-> updated, timer |-> 0])
          /\ saves' = Append(saves, [at |-> now, base |-> rendered, state |-> updated,
                                     updates |-> updates.kind,
                                     immediate |-> TRUE, completed |-> completes,
                                     returned |-> SaveResult(completes)])
  /\ timers' = Cleared(timers, saveTimeout)
  /\ saveTimeout' = 0
  /\ UNCHANGED <<mediaState, engine, loader, now, stored, hookPc, rendered>>

\* A timeout fires: persistWorkflow posts the workflow the call closed over
TimerFires ==
  /\ \E t \in timers :
       /\ t.deadline <= now
       /\ timers' = timers \ {t}
       /\ requests' = Append(requests, [at |-> now, payload |-> t.payload, timer |-> t.id])
  /\ UNCHANGED <<mediaState, engine, loader, now, stored, hookPc, workflow, rendered, saveTimeout, saves>>

\* The earliest deadline among the pending timeouts, limit when there is none
EarliestDeadline(limit) ==
  IF timers = {} THEN limit
  ELSE LET first == CHOOSE t \in timers : \A u \in timers : t.deadline <= u.deadline
       IN IF first.deadline < limit THEN first.deadline ELSE limit

\* Time passes, and no timeout is overslept
HookTick ==
  /\ hookPc \in {"loaded", "new"}
  /\ now < MaxTicks * HookStepMs
  /\ \A t \in timers : t.deadline > now
  /\ now' = EarliestDeadline(now + HookStepMs)
  /\ UNCHANGED <<mediaState, engine, loader, hook>>

HookNext ==
  \/ HookLoadResolves
  \/ HookLoadFails
  \/ HookRenders
  \/ SaveWorkflow
  \/ SaveWorkflowImmediate
  \/ TimerFires
  \/ HookTick

HookSpec == HookInit /\ [][HookNext]_vars

(* ---------------------------- load effect ---------------------------- *)

\* The load effects of a run
MaxLoads == 2

\* The workflowId values the hook is rendered with: none, two stored
\* workflows, and one that is not in the list
WorkflowIds == {"", "w1", "w2", "gone"}

\* The workflows GET /api/workflows returns
Listed == {"w1", "w2"}

\* detail.workflow ?? found
StoreOf(id) ==
  IF id = "w1"
  THEN [nodes |-> {"start", "a"}, edges |-> {Edge("start", "a"), Edge("a", "ghost")}, rev |-> 0]
  ELSE [nodes |-> {"start", "b"}, edges |-> {Edge("start", "b")}, rev |-> 0]

\* The hook is mounted: no effect has run yet
LoadInit ==
  /\ MediaIdle
  /\ now = 0
  /\ HookIdle
  /\ EngineIdle
  /\ LoaderIdle

\* What a step of the load effect leaves alone
loadFixed == <<mediaState, engine, now, stored, hookPc, rendered, timers, saveTimeout,
               requests, saves>>

\* The load n is over: finally { setLoading(false) }
Finished(n, path) == [loads EXCEPT ![n].pc = "done", ![n].path = path]

\* The effect runs for a new workflowId: setLoading(true); without an id the
\* new workflow is created at once, else the list is fetched
LoadStarts ==
  /\ Len(loads) < MaxLoads
  /\ \E id \in WorkflowIds \ {workflowId} :
       /\ workflowId' = id
       /\ IF id = ""
          THEN /\ loads' = Append(loads, [id |-> id, pc |-> "done", path |-> "noId"])
               /\ workflow' = NewWorkflow
               /\ loading' = FALSE
          ELSE /\ loads' = Append(loads, [id |-> id, pc |-> "list", path |-> "none"])
               /\ loading' = TRUE
               /\ UNCHANGED workflow
  /\ UNCHANGED loadFixed

\* The list arrives with the workflow in it: the detail is fetched
LoadListFound ==
  /\ \E n \in 1..Len(loads) :
       /\ loads[n].pc = "list"
       /\ loads[n].id \in Listed
       /\ loads' = [loads EXCEPT ![n].pc = "detail"]
  /\ UNCHANGED <<loadFixed, workflowId, workflow, loading>>

\* The list arrives without the workflow: createNewWorkflow
LoadListNotFound ==
  /\ \E n \in 1..Len(loads) :
       /\ loads[n].pc = "list"
       /\ loads[n].id \notin Listed
       /\ loads' = Finished(n, "notFound")
  /\ workflow' = NewWorkflow
  /\ loading' = FALSE
  /\ UNCHANGED <<loadFixed, workflowId>>

\* A fetch rejects or a body is not JSON: the catch block creates a new workflow
LoadFetchFails ==
  /\ \E n \in 1..Len(loads) :
       /\ loads[n].pc \in {"list", "detail"}
       /\ loads' = Finished(n, "error")
  /\ workflow' = NewWorkflow
  /\ loading' = FALSE
  /\ UNCHANGED <<loadFixed, workflowId>>

\* The detail arrives: the workflow is validated and set
LoadDetailArrives ==
  /\ \E n \in 1..Len(loads) :
       /\ loads[n].pc = "detail"
       /\ loads' = Finished(n, "loaded")
       /\ workflow' = LoadedWorkflow(StoreOf(loads[n].id))
  /\ loading' = FALSE
  /\ UNCHANGED <<loadFixed, workflowId>>

LoadNext ==
  \/ LoadStarts
  \/ LoadListFound
  \/ LoadListNotFound
  \/ LoadFetchFails
  \/ LoadDetailArrives

\* The fetches of a load settle
LoadSettles ==
  \/ LoadListFound
  \/ LoadListNotFound
  \/ LoadFetchFails
  \/ LoadDetailArrives

LoadFairSpec == LoadInit /\ [][LoadNext]_vars /\ WF_vars(LoadSettles)

(* ----------------------- sanitizeWorkflowForSave ---------------------- *)

\* The edges of a workflow that is saved, at most
MaxEdges == 2

\* A property of node.data: a plain value or a function
DataEntry(key, kind) == [key |-> key, kind |-> kind]

\* if (key === 'Provider' || key === 'component' || key === 'ref') continue;
\* else if (typeof value === 'function') continue
KeptEntry(entry) == entry.key \notin {"Provider", "component", "ref"} /\ entry.kind # "function"

\* cleanNodeData(node.data || {})
cleanNodeData(data) == SelectSeq(data, KeptEntry)

\* A node of the editor, with properties the payload does not take over
EditorNode(id, type, data) ==
  [id |-> id, type |-> type, position |-> id, data |-> data, selected |-> FALSE]

\* An edge of the editor: the branch label of a condition node's edges is
\* "true" or "false", "none" stands for no label
EditorEdge(id, source, target, label) ==
  [id |-> id, source |-> source, target |-> target, label |-> label, animated |-> TRUE]

\* node => ({ id, type, position, data: cleanNodeData(node.data || {}) })
CleanNode(node) ==
  [id |-> node.id, type |-> node.type, position |-> node.position,
   data |-> cleanNodeData(node.data)]

\* edge => ({ id, source, target, animated })
CleanEdge(edge) ==
  [id |-> edge.id, source |-> edge.source, target |-> edge.target, animated |-> edge.animated]

\* The payload of POST /api/workflows
sanitizeWorkflowForSave(wf) ==
  [nodes |-> [k \in 1..Len(wf.nodes) |-> CleanNode(wf.nodes[k])],
   edges |-> [k \in 1..Len(wf.edges) |-> CleanEdge(wf.edges[k])],
   rev |-> wf.rev]

\* The node lists that are saved: the budget check between its neighbours, in
\* two orders, and a start node alone
NodeLists ==
  { <<EditorNode("start", "start", <<DataEntry("label", "value")>>),
      EditorNode("check", "condition", <<DataEntry("condition", "value"),
                                         DataEntry("onChange", "function")>>),
      EditorNode("images", "tool", <<DataEntry("ref", "value")>>),
      EditorNode("video", "tool", <<>>)>>,
    <<EditorNode("video", "tool", <<>>),
      EditorNode("check", "condition", <<DataEntry("condition", "value")>>),
      EditorNode("start", "start", <<>>),
      EditorNode("images", "tool", <<>>)>>,
    <<EditorNode("start", "start", <<>>)>> }

EditorEdges ==
  { EditorEdge("e1", "start", "check", "none"),
    EditorEdge("e2", "check", "images", "true"),
    EditorEdge("e3", "check", "video", "false"),
    EditorEdge("e4", "images", "video", "none") }

\* The edge lists that are saved: up to MaxEdges edges in any order
EdgeLists == UNION {[1..n -> EditorEdges] : n \in 0..MaxEdges}

\* The editor holds a workflow that is about to be saved
SanitizeInit ==
  /\ MediaIdle
  /\ now = 0
  /\ EngineIdle
  /\ LoaderIdle
  /\ stored = NoWorkflow
  /\ hookPc = "editing"
  /\ workflow \in [nodes : NodeLists, edges : EdgeLists, rev : {1}]
  /\ rendered = workflow
  /\ timers = {}
  /\ saveTimeout = 0
  /\ requests = <<>>
  /\ saves = <<>>

\* persistWorkflow(wf): the sanitized payload is posted and stored
PersistWorkflow ==
  /\ hookPc = "editing"
  /\ hookPc' = "saved"
  /\ requests' = Append(requests, [at |-> now, payload |-> sanitizeWorkflowForSave(workflow),
                                   timer |-> 0])
  /\ stored' = sanitizeWorkflowForSave(workflow)
  /\ UNCHANGED <<mediaState, engine, loader, now, workflow, rendered, timers, saveTimeout, saves>>

\* The saved workflow is loaded again
ReloadWorkflow ==
  /\ hookPc = "saved"
  /\ hookPc' = "reloaded"
  /\ workflow' = stored
  /\ UNCHANGED <<mediaState, engine, loader, now, stored, rendered, timers, saveTimeout,
                 requests, saves>>

SanitizeNext == PersistWorkflow \/ ReloadWorkflow

SanitizeSpec == SanitizeInit /\ [][SanitizeNext]_vars

(* ------------------------- execution engine -------------------------- *)

\* The nodes of the workflows that are run, with their type tags
NodeType ==
  [start |-> "start", check |-> "condition", images |-> "tool", video |-> "tool",
   finish |-> "end"]

NodeIds == DOMAIN NodeType

\* An edge with an optional branch label ("none" when it has no label)
LabelledEdge(source, target, label) == [source |-> source, target |-> target, label |-> label]

\* The edges a workflow may have: those of the seeded budget check, and edges
\* that give a node a second outgoing edge or an unlabelled branch
EdgeUniverse ==
  { LabelledEdge("start", "check", "none"),
    LabelledEdge("start", "images", "none"),
    LabelledEdge("check", "images", "true"),
    LabelledEdge("check", "video", "false"),
    LabelledEdge("check", "finish", "none"),
    LabelledEdge("images", "video", "none"),
    LabelledEdge("images", "finish", "none"),
    LabelledEdge("video", "finish", "none") }

\* condition: "budget_tier === 'low'"
BudgetCondition == [variable |-> "budget_tier", equals |-> "low"]

\* An evaluation that always takes the true branch
AlwaysTrue(expression, vars_) == TRUE

\* The boolean expression of a condition node, evaluated over state.variables
Evaluate(expression, vars_) == vars_[expression.variable] = expression.equals

\* A node whose outgoing edges are not seen
NoOutgoing(node) == {}

\* The outgoing edges of a node
Outgoing(node) == {e \in graph : e.source = node}

\* The label a condition node resolves to
ResolvedLabel == IF Evaluate(BudgetCondition, variables) THEN "true" ELSE "false"

\* The outgoing edges of a condition node that carry the resolved label
BranchEdges(node) == {e \in Outgoing(node) : e.label = ResolvedLabel}

\* The engine is given a workflow and selects its start node
EngineInit ==
  /\ MediaIdle
  /\ now = 0
  /\ HookIdle
  /\ LoaderIdle
  /\ graph \in SUBSET EdgeUniverse
  /\ variables \in {[budget_tier |-> "low"], [budget_tier |-> "high"]}
  /\ current = "start"
  /\ runStatus = "running"
  /\ executed = <<>>

\* The part of the state a step of the engine leaves alone
engineFixed == <<mediaState, now, hook, loader, graph, variables>>

\* An end node is executed: the run terminates
EngineEnds ==
  /\ runStatus = "running"
  /\ NodeType[current] = "end"
  /\ executed' = Append(executed, current)
  /\ runStatus' = "ended"
  /\ UNCHANGED <<engineFixed, current>>

\* A condition node is executed and the edge with the resolved label followed
EngineBranches ==
  /\ runStatus = "running"
  /\ NodeType[current] = "condition"
  /\ BranchEdges(current) # {}
  /\ executed' = Append(executed, current)
  /\ \E e \in BranchEdges(current) : current' = e.target
  /\ UNCHANGED <<engineFixed, runStatus>>

\* A condition node is executed and no edge has the resolved label: GraphError
EngineBranchMissing ==
  /\ runStatus = "running"
  /\ NodeType[current] = "condition"
  /\ BranchEdges(current) = {}
  /\ executed' = Append(executed, current)
  /\ runStatus' = "failed"
  /\ UNCHANGED <<engineFixed, current>>

\* A node of another type is executed and its single outgoing edge followed
EngineFollows ==
  /\ runStatus = "running"
  /\ NodeType[current] \notin {"condition", "end"}
  /\ Cardinality(Outgoing(current)) = 1
  /\ executed' = Append(executed, current)
  /\ \E e \in Outgoing(current) : current' = e.target
  /\ UNCHANGED <<engineFixed, runStatus>>

\* A node of another type has more than one outgoing edge: GraphError
EngineFanOutFails ==
  /\ runStatus = "running"
  /\ NodeType[current] \notin {"condition", "end"}
  /\ Cardinality(Outgoing(current)) > 1
  /\ executed' = Append(executed, current)
  /\ runStatus' = "failed"
  /\ UNCHANGED <<engineFixed, current>>

\* A node of another type has no outgoing edge: "fails with GraphError if
\* zero ... outgoing edge exists"
EngineNoEdgeFails ==
  /\ runStatus = "running"
  /\ NodeType[current] \notin {"condition", "end"}
  /\ Outgoing(current) = {}
  /\ executed' = Append(executed, current)
  /\ runStatus' = "failed"
  /\ UNCHANGED <<engineFixed, current>>

\* A node of another type has no outgoing edge: "the run terminates ... when
\* no outgoing edge exists"
EngineNoEdgeEnds ==
  /\ runStatus = "running"
  /\ NodeType[current] \notin {"condition", "end"}
  /\ Outgoing(current) = {}
  /\ executed' = Append(executed, current)
  /\ runStatus' = "ended"
  /\ UNCHANGED <<engineFixed, current>>

EngineNext ==
  \/ EngineEnds
  \/ EngineBranches
  \/ EngineBranchMissing
  \/ EngineFollows
  \/ EngineFanOutFails
  \/ EngineNoEdgeFails
  \/ EngineNoEdgeEnds

EngineSpec == EngineInit /\ [][EngineNext]_vars

(* ------------------------------ claims ------------------------------- *)

Min(a, b) == IF a < b THEN a ELSE b

\* The batch-size cap of the running executor
Cap == IF executor = "image" THEN MAX_IMAGES ELSE MAX_CLIPS

\* The work items came from extractPrompts / extractVideoPrompts
ViaNormaliser ==
  \/ executor = "image"
  \/ ~HasImageList(lastOutput, "approvedImages") /\ ~HasImageList(lastOutput, "selectedImages")

\* The normaliser has run and has returned
NormaliserReturned == pc # "start" /\ rejection \notin {"config", "normaliser"}

\* The result list of a returned outcome
OutcomeList == IF executor = "image" THEN outcome.images ELSE outcome.clips

\* C1: for every upstream value the normaliser returns a non-empty sequence
\* of work items.
C1_NormaliserNonEmpty == (ViaNormaliser /\ NormaliserReturned) => Len(prompts) >= 1

\* C2: the normaliser never raises, whatever the upstream value.
C2_NormaliserNeverRaises == ViaNormaliser => rejection # "normaliser"

\* C3, as claimed: a returned batch of n work items has made provider calls
\* for, and holds results for, exactly min(n, cap) items, the first in order.
C3_ExactlyCapCallsAndResults ==
  pc = "done" =>
    /\ Len(calls) = Min(Len(prompts), Cap)
    /\ Len(OutcomeList) = Min(Len(prompts), Cap)
    /\ \A k \in 1..Len(calls) : calls[k].item = k
    /\ \A k \in 1..Len(OutcomeList) : OutcomeList[k].originalPrompt = prompts[k].prompt

\* C3, amended: provider calls are made only for the first min(n, cap) items,
\* in order and at most one per item; a returned batch holds exactly
\* min(n, cap) results, those of the first items in order; the image executor
\* has then made exactly one call per result.
C3_CapEnforced ==
  /\ \A k \in 1..Len(calls) : calls[k].item \in 1..Min(Len(prompts), Cap)
  /\ \A k \in 1..(Len(calls) - 1) : calls[k].item < calls[k + 1].item
  /\ Len(results) <= Min(Len(prompts), Cap)
  /\ pc = "done" =>
       /\ Len(OutcomeList) = Min(Len(prompts), Cap)
       /\ \A k \in 1..Len(OutcomeList) :
            /\ OutcomeList[k].originalPrompt = prompts[k].prompt
            /\ OutcomeList[k].shotNumber = prompts[k].shotNumber
       /\ executor = "image" => Len(calls) = Len(OutcomeList)

\* A batch over the cap has returned, truncated to the cap
C3_TruncatedBatchReturned ==
  /\ pc = "done"
  /\ Len(prompts) > Cap
  /\ Len(OutcomeList) = Cap
  /\ Len(calls) = Cap

HasField(record, name) == name \in DOMAIN record

\* The caller can tell from the outcome that items were dropped
ReportsTruncation(o) ==
  \/ HasField(o, "truncated") /\ o.truncated
  \/ HasField(o, "totalRequested") /\ o.totalRequested > Len(o.images)

\* C4: a batch truncated by the cap reports the truncation in its outcome.
C4_TruncationReported == (pc = "done" /\ Len(prompts) > Cap) => ReportsTruncation(outcome)

RateLimitIndicated(r) ==
  /\ ~r.success
  /\ r.error.t = "string"
  /\ Includes(ToLowerCase(r.error.s), S_RATE_LIMIT) \/ Includes(r.error.s, S_429)

\* Every call for an item that follows a rate-limited failure starts no
\* earlier than coolDown after that failure was recorded
CoolDownRespected(coolDown) ==
  \A c \in 1..Len(calls) :
    LET k == calls[c].item
    IN (k > 1 /\ RateLimitIndicated(results[k - 1])) => calls[c].at - recordedAt[k - 1] >= coolDown

\* C6: image executor: after a failure whose message holds "rate limit" in
\* any case or "429", the next call starts no earlier than 10 s later, and
\* the remaining items are still processed.
C6_ImageCoolDown ==
  executor = "image" =>
    /\ CoolDownRespected(IMAGE_COOL_DOWN_MS)
    /\ pc = "done" => Len(OutcomeList) = Len(promptsToGenerate)

\* C7: video executor: after a clip failure whose message holds "rate limit"
\* in any case or "429", the next call starts no earlier than 30 s later, and
\* the remaining clips are still processed.
C7_VideoCoolDown ==
  executor = "video" =>
    /\ CoolDownRespected(VIDEO_COOL_DOWN_MS)
    /\ pc = "done" => Len(OutcomeList) = Len(promptsToGenerate)

\* C8: provider calls of a batch are strictly sequential: at most one request
\* or download is outstanding, and the call for an item starts only after the
\* results of all earlier items have been recorded.
C8_Sequential ==
  /\ Cardinality(inFlight) <= 1
  /\ \A c \in 1..Len(calls) : calls[c].after = calls[c].item - 1
  /\ pc \in {"run", "download"} => inFlight = {i + 1} /\ Len(results) = i

\* The second item's request is outstanding after the first result was recorded
C8_SecondCallInFlight == pc = "run" /\ inFlight = {2} /\ Len(results) = 1

\* The inter-call delay of the running executor
InterCallDelay == IF executor = "image" THEN IMAGE_DELAY_MS ELSE VIDEO_DELAY_MS

\* C9: between two consecutive items the inter-call delay elapses before the
\* later item's call starts, whether the earlier item succeeded or failed,
\* and no delay follows the last item.
C9_InterCallDelay ==
  /\ \A c \in 1..Len(calls) :
       calls[c].item > 1 => calls[c].at - recordedAt[calls[c].item - 1] >= InterCallDelay
  /\ (pc = "done" /\ Len(results) > 0 /\ results[Len(results)].success)
       => now = recordedAt[Len(results)]

\* A result record that is fully successful or fully failed
WellFormedResult(r) ==
  \/ /\ r.success
     /\ NonEmptyPath(r.url)
     /\ NonEmptyPath(r.localPath)
     /\ r.error = Undefined
  \/ /\ ~r.success
     /\ ~NonEmptyPath(r.url)
     /\ ~NonEmptyPath(r.localPath)
     /\ r.error.t = "string"
     /\ r.error.s # <<>>

\* C10: every result record of a batch outcome is fully successful or fully
\* failed, for any thrown value and any provider output.
C10_ResultsNeverPartial ==
  pc = "done" => \A k \in 1..Len(OutcomeList) : WellFormedResult(OutcomeList[k])

RECURSIVE SumCost(_)
\* The sum of the estimatedCost amounts of the successful items of a list
SumCost(list) ==
  IF list = <<>> THEN 0
  ELSE (IF Head(list).success THEN Head(list).estimatedCost.n ELSE 0) + SumCost(Tail(list))

\* The decimals of the executor's cost strings
CostDigits == IF executor = "image" THEN 4 ELSE 2

\* C11: the batch's estimatedTotalCost equals the sum of the estimatedCost
\* values of its successful items, under the same rounding (4 decimals for
\* images, 2 for video), for every model, duration and number of successes.
C11_TotalCostIsSumOfItemCosts ==
  pc = "done" =>
    /\ outcome.estimatedTotalCost.digits = CostDigits
    /\ \A k \in 1..Len(OutcomeList) : OutcomeList[k].estimatedCost.digits = CostDigits
    /\ outcome.estimatedTotalCost.n = SumCost(OutcomeList)

\* The video executor has returned
VideoDone == IsVideo /\ pc = "done"

\* The successful clips of the returned outcome, in batch order
Delivered == SelectSeq(outcome.clips, Succeeded)

\* C12: with zero successful clips no deliverable is produced, the stitching
\* status is "skipped" and the media tool is never invoked.
C12_ZeroClipsSkipped ==
  (VideoDone /\ Len(Delivered) = 0) =>
    /\ ~outcome.finalVideo.defined
    /\ outcome.stitchingStatus = "skipped"
    /\ ffmpegRuns = 0
    /\ toolEvent = "none"
    /\ ~concatList /\ concatContent = <<>>

\* A batch of two or more clips has returned with every clip failed
C12_AllClipsFailed == VideoDone /\ Len(outcome.clips) >= 2 /\ Len(Delivered) = 0

\* C13: with exactly one successful clip, at any position among failed ones,
\* the deliverable is that clip's url, local path and duration, the status is
\* "success", no concatenation is run and no concat list is created.
C13_SingleClipPassedThrough ==
  (VideoDone /\ Len(Delivered) = 1) =>
    /\ outcome.finalVideo = [defined |-> TRUE, url |-> Delivered[1].url,
                              localPath |-> Delivered[1].localPath,
                              duration |-> Delivered[1].duration]
    /\ outcome.stitchingStatus = "success"
    /\ ffmpegRuns = 0
    /\ toolEvent = "none"
    /\ ~concatList /\ concatContent = <<>>

\* The only successful clip of a returned batch follows a failed one
C13_SingleClipAfterFailure ==
  /\ VideoDone
  /\ Len(Delivered) = 1
  /\ Len(outcome.clips) >= 2
  /\ ~outcome.clips[1].success
  /\ outcome.finalVideo.defined

\* C14: with two or more successful clips and a tool run that completes, the
\* successful clips are concatenated in batch order with failed clips
\* skipped, the status is "success" and the deliverable's duration is the
\* sum of the contributing clips' durations.
C14_ConcatenatedInOrder ==
  (VideoDone /\ Len(Delivered) >= 2 /\ toolEvent = "end") =>
    /\ concatContent = [k \in 1..Len(Delivered) |-> Delivered[k].localPath]
    /\ ffmpegRuns = 1
    /\ outcome.stitchingStatus = "success"
    /\ outcome.finalVideo.defined
    /\ outcome.finalVideo.duration = SumDuration(Delivered)
    /\ outcome.finalVideo.duration = Len(Delivered) * duration

\* Two clips around a failed one have been concatenated
C14_ConcatenatedAroundFailure ==
  /\ VideoDone
  /\ toolEvent = "end"
  /\ Len(outcome.clips) = 3
  /\ outcome.clips[1].success /\ ~outcome.clips[2].success /\ outcome.clips[3].success
  /\ Len(concatContent) = 2

\* The concatenation step failed
ToolFailed == toolEvent \in {"writeFailed", "threw", "error"}

\* C15: when the concatenation step fails, the outcome has status "failed"
\* and no deliverable, the executor still returns, and the clips with their
\* counts and cost are what they were before stitching.
C15_StitchFailureIsSoft ==
  /\ [](ToolFailed =>
          /\ VideoDone
          /\ outcome.returned
          /\ outcome.stitchingStatus = "failed"
          /\ ~outcome.finalVideo.defined
          /\ outcome.clips = results
          /\ outcome.totalGenerated = successCount
          /\ outcome.totalFailed = failCount
          /\ outcome.totalGenerated = Len(Delivered)
          /\ outcome.totalGenerated + outcome.totalFailed = Len(outcome.clips)
          /\ outcome.estimatedTotalCost
               = ToFixed(totalVideoDuration(results) * costPerSecond(model), 2))
  /\ [][(Concatenates \/ pc = "ffmpeg") =>
          (results' = results /\ successCount' = successCount /\ failCount' = failCount)]_vars

\* The tool reported an error after it was started
C15_ToolErrorReturned == VideoDone /\ toolEvent = "error" /\ outcome.stitchingStatus = "failed"

\* C16: the concat list file written for a concatenation is removed by the
\* time stitching finishes, on every outcome.
C16_ConcatListRemoved == pc = "done" => ~concatList

\* The polling loop is at its test with a status that ends the clip in failure
PollingGivesUp ==
  /\ executor = "runway"
  /\ pc = "poll"
  /\ task = "FAILED" \/ (task = "RUNNING" /\ pollCount >= MAX_POLLS)

\* C17: a Runway clip's task is polled every 5 s, at most 120 times; a FAILED
\* status, or a task still not terminal after the last poll, becomes a failed
\* clip result and the batch goes on without raising; the polling of a clip
\* always ends.
C17_PollingEnds ==
  /\ [](pollCount <= MAX_POLLS)
  /\ []((executor = "runway" /\ pc = "poll") =>
          now - calls[Len(calls)].at = pollCount * POLL_INTERVAL_MS)
  /\ [][PollingGivesUp =>
          /\ results' = Append(results, ClipFailure(promptsToGenerate[i + 1],
                 Str(IF task = "FAILED" THEN S_GENERATION_FAILED ELSE S_TIMED_OUT)))
          /\ failCount' = failCount + 1
          /\ i' = i + 1
          /\ pc' = "loop"
          /\ rejection' = "none"]_vars
  /\ (pc = "poll") ~> (pc # "poll")

\* The second clip is polled after the first one ran out of polls
C17_PolledAfterTimeout ==
  /\ executor = "runway"
  /\ pc = "poll"
  /\ Len(results) = 1
  /\ results[1].error = Str(S_TIMED_OUT)
  /\ recordedAt[1] - calls[1].at = MAX_POLLS * POLL_INTERVAL_MS

(* ---------------------- image-conditioned requests --------------------- *)

\* The work item a provider call was made for
ItemOf(call) == promptsToGenerate[call.item]

\* The item names a source image
HasSourceImage(item) == Truthy(item.sourceImage)

\* The item names a source image and the file is on disk
SourceOnDisk(item) == HasSourceImage(item) /\ item.sourceImage \in disk

\* Mode 'image', or mode 'auto' with the item's source image on disk
ConditioningRequested(item) ==
  \/ inputMode = "image"
  \/ inputMode = "auto" /\ SourceOnDisk(item)

\* The items of the batch that have been dealt with and whose prompt is text
Processed == {k \in 1..Len(results) : promptsToGenerate[k].prompt.t = "string"}

\* Item k was sent to the provider
Sent(k) == \E c \in 1..Len(calls) : calls[c].item = k

\* C18 as stated: a video item gets an image-conditioned request when mode
\* 'image' is requested or when the mode is 'auto' and its source image is on
\* disk, and a text-only request in every other case
C18_ConditionedWhenRequested ==
  IsVideo =>
    /\ \A c \in 1..Len(calls) : calls[c].image <=> ConditioningRequested(ItemOf(calls[c]))
    /\ \A k \in Processed : Sent(k)

\* C18 amended: the request is image-conditioned exactly when the item names
\* a source image and either mode 'image' is requested or the mode is 'auto'
\* and the file is on disk; in mode 'image' an item whose named file is not on
\* disk gets no request and a failed clip; every other item gets a text-only
\* request
C18_ConditionedWhenImageNamed ==
  IsVideo =>
    /\ \A c \in 1..Len(calls) :
         /\ calls[c].image <=>
              (HasSourceImage(ItemOf(calls[c])) /\ ConditioningRequested(ItemOf(calls[c])))
         /\ calls[c].image => SourceOnDisk(ItemOf(calls[c]))
    /\ \A k \in Processed :
         LET item == promptsToGenerate[k]
         IN IF inputMode = "image" /\ HasSourceImage(item) /\ ~SourceOnDisk(item)
            THEN ~Sent(k) /\ ~results[k].success /\ results[k].error = Str(S_ENOENT)
            ELSE Sent(k)

\* Mode 'image' was requested, and an item that names no source image was
\* sent as a text-only request
C18_ImageModeSentTextOnly ==
  /\ IsVideo
  /\ inputMode = "image"
  /\ \E c \in 1..Len(calls) : ~calls[c].image /\ ~HasSourceImage(ItemOf(calls[c]))
  /\ Len(results) >= 1

(* --------------------------- prompt length ---------------------------- *)

\* The first PROMPT_LIMIT characters of a text
FirstCharacters(text) == SubSeq(text, 1, Min(Len(text), PROMPT_LIMIT))

\* C19: every prompt text sent to a provider, by the image executor and by
\* the video executors, is at most 4000 characters long and is the first 4000
\* characters of the item's prompt, and the originalPrompt recorded for the
\* item is the whole prompt
C19_SentPromptTruncated ==
  /\ \A c \in 1..Len(calls) :
       /\ Len(calls[c].prompt) <= PROMPT_LIMIT
       /\ calls[c].prompt = FirstCharacters(ItemOf(calls[c]).prompt.s)
  /\ \A k \in Processed : results[k].originalPrompt = promptsToGenerate[k].prompt

(* ------------------------- missing credential ------------------------- *)

\* C20: with no provider credential the executor fails fatally before any
\* provider call: no work item is normalised or sent, no asset file or concat
\* list is written, the stitching tool is never run and no batch outcome is
\* returned
C20_NoCredentialIsFatal ==
  ~hasKey =>
    /\ pc \in {"start", "raised"}
    /\ pc = "raised" => rejection = "config"
    /\ prompts = <<>>
    /\ promptsToGenerate = <<>>
    /\ calls = <<>>
    /\ inFlight = {}
    /\ results = <<>>
    /\ successCount = 0
    /\ failCount = 0
    /\ ~concatList
    /\ ffmpegRuns = 0
    /\ outcome = NoOutcome

\* An executor given two work items and no credential has raised
C20_RaisedWithoutCredential ==
  /\ ~hasKey
  /\ lastOutput = Arr(<<PromptObject(1), PromptObject(2)>>)
  /\ pc = "raised"
  /\ rejection = "config"

(* --------------------------- file names ------------------------------- *)

\* concat-<timestamp>.txt: the timestamp is taken when stitching starts, and
\* the clock does not advance while the tool runs
concatListPath == FileName("concat", Undefined, now)

\* The files this batch has written: the assets of its successful results,
\* the concat list and the concatenated video
WrittenFiles ==
  {results[k].localPath : k \in {j \in 1..Len(results) : results[j].success}}
    \cup (IF ffmpegRuns > 0 /\ toolEvent # "writeFailed" THEN {concatListPath} ELSE {})
    \cup (IF toolEvent = "end" THEN {outcome.finalVideo.localPath} ELSE {})

\* C21: no two successful results of one batch share a file path, and no file
\* this batch writes has the path of a file written by a batch running at the
\* same time
C21_FileNamesNeverCollide ==
  /\ \A j, k \in 1..Len(results) :
       (j < k /\ results[j].success /\ results[k].success)
         => results[j].localPath # results[k].localPath
  /\ WrittenFiles \cap peerFiles = {}

(* ------------------------------ order --------------------------------- *)

\* The array of upstream entries the normaliser maps: the upstream value
\* itself, or the first array among the properties of an upstream object
UpstreamEntries(x) ==
  IF IsArray(x) THEN x.a
  ELSE IF x.t # "object" THEN <<>>
  ELSE LET arrays == {j \in 1..Len(x.k) : IsArray(x.v[x.k[j]])}
       IN IF arrays = {} THEN <<>>
          ELSE x.v[x.k[CHOOSE j \in arrays : \A h \in arrays : j <= h]].a

\* The normaliser made the work items from the upstream entries, one from
\* each entry it kept
MadeFromEntries(x) ==
  \/ IsArray(x)
  \/ /\ Truthy(x)
     /\ TypeOf(x) = "object"
     /\ \/ IsArray(Prop(x, "imagePrompts"))
        \/ ScanStop(x) # 0
        \/ IsVideo /\ IsArray(Prop(x, "images"))
        \/ executor = "video" /\ (HasImageList(x, "approvedImages") \/ HasImageList(x, "selectedImages"))

\* The prompt an upstream entry carries: an element of an upstream array is
\* stringified when it has none, an image entry carries it as originalPrompt
EntryPrompt(e) ==
  IF ~CanRead(e) THEN Undefined
  ELSE IF IsArray(lastOutput) THEN Or(Prop(e, "prompt"), JsToString(e))
  ELSE Or(Prop(e, "originalPrompt"), Prop(e, "prompt"))

RECURSIVE IsSubsequence(_, _)
\* a is b with some elements left out: the elements of a are in b's order
IsSubsequence(a, b) ==
  IF a = <<>> THEN TRUE
  ELSE IF b = <<>> THEN FALSE
  ELSE IF a[1] = b[1] THEN IsSubsequence(Tail(a), Tail(b))
  ELSE IsSubsequence(a, Tail(b))

\* Result r belongs to work item w
BelongsTo(r, w) == r.shotNumber = w.shotNumber /\ r.originalPrompt = w.prompt

\* C22: order is preserved end to end: the k-th result, at every moment and
\* in the returned outcome, belongs to the k-th work item of the normaliser
\* whatever succeeded and failed before it, and the work items are in the
\* order of the upstream entries they were made from
C22_OrderPreserved ==
  /\ Len(results) <= Len(prompts)
  /\ \A k \in 1..Len(results) : BelongsTo(results[k], prompts[k])
  /\ outcome.returned =>
       /\ Len(OutcomeList) = Min(Len(prompts), Cap)
       /\ \A k \in 1..Len(OutcomeList) : BelongsTo(OutcomeList[k], prompts[k])
  /\ (NormaliserReturned /\ MadeFromEntries(lastOutput)) =>
       IsSubsequence([j \in 1..Len(prompts) |-> prompts[j].prompt],
                     [j \in 1..Len(UpstreamEntries(lastOutput)) |->
                        EntryPrompt(UpstreamEntries(lastOutput)[j])])

\* A batch over the cap has returned with a failure among its results
C22_FailureInsideCappedBatch ==
  /\ outcome.returned
  /\ Len(prompts) > Cap
  /\ \E k \in 1..(Len(OutcomeList) - 1) :
       ~OutcomeList[k].success /\ OutcomeList[k + 1].success

(* --------------------------- images array ----------------------------- *)

\* The upstream value has an images array
HasImages(x) == x.t = "object" /\ "images" \in DOMAIN x.v /\ IsArray(x.v["images"])

\* An entry with success = true and a non-empty local path
SavedEntry(e) ==
  /\ Prop(e, "success") = Bool(TRUE)
  /\ Prop(e, "localPath").t = "string"
  /\ Prop(e, "localPath").s # <<>>

\* The saved entries of the images array, in order
SavedEntries(x) == SelectSeq(x.v["images"].a, SavedEntry)

RECURSIVE FencedBlocks(_, _)
\* The fenced blocks of a markdown text from index from on, in source order:
\* a fence, the rest of its line, the block's text, a newline and a fence
FencedBlocks(text, from) ==
  LET open == IndexFrom(text, FENCE, from)
      lineEnd == IF open = 0 THEN 0 ELSE IndexFrom(text, <<"\n">>, open + 3)
      close == IF lineEnd = 0 THEN 0 ELSE IndexFrom(text, <<"\n">> \o FENCE, lineEnd)
  IN IF close = 0 THEN <<>>
     ELSE <<Trim(SubSeq(text, lineEnd + 1, close - 1))>> \o FencedBlocks(text, close + 4)

\* A block is discarded: it names negative prompts or technical
\* specifications, in any case of letters, or is shorter than 50 characters
Discarded(block) ==
  \/ Includes(ToLowerCase(block), S_NEGATIVE_PROMPT)
  \/ Includes(ToLowerCase(block), S_TECHNICAL_SPECIFICATIONS)
  \/ Len(block) < MIN_BLOCK_LENGTH

NotDiscarded(block) == ~Discarded(block)

\* The fenced blocks of the upstream string that are not discarded
RemainingBlocks == SelectSeq(FencedBlocks(lastOutput.s, 1), NotDiscarded)

\* C24: the work items extracted from a markdown string are its fenced
\* blocks in source order, without the blocks that name negative prompts or
\* technical specifications or are under 50 characters long, numbered 1, 2,
\* 3, ... without gaps; three blocks of which one is short and one a negative
\* prompt give one work item with shot number 1
C24_MarkdownExtraction ==
  /\ (NormaliserReturned /\ lastOutput.t = "string" /\ RemainingBlocks # <<>>) =>
       /\ Len(prompts) = Len(RemainingBlocks)
       /\ \A j \in 1..Len(prompts) :
            prompts[j].prompt = Str(RemainingBlocks[j]) /\ prompts[j].shotNumber = Num(j)
  /\ (NormaliserReturned /\ lastOutput = Str(MARKDOWN_THREE_BLOCKS)) =>
       Len(prompts) = 1 /\ prompts[1].shotNumber = Num(1)

(* -------------------------- string upstream --------------------------- *)

\* The prompts the markdown extraction takes from the upstream string
ExtractedBlocks == KeptBlocks(lastOutput.s)

\* The normaliser's work items are the extracted blocks, numbered from 1
IsExtraction ==
  /\ Len(prompts) = Len(ExtractedBlocks)
  /\ \A j \in 1..Len(prompts) :
       prompts[j].prompt = Str(ExtractedBlocks[j]) /\ prompts[j].shotNumber = Num(j)

\* The normaliser's work items are the upstream string alone, as shot 1
IsWholeString ==
  Len(prompts) = 1 /\ prompts[1].prompt = lastOutput /\ prompts[1].shotNumber = Num(1)

\* The normaliser has returned for an upstream string
StringNormalised == NormaliserReturned /\ lastOutput.t = "string"

\* C25 as stated: a string with triple-backtick fences gives the markdown
\* extraction of its blocks, every other string is wrapped whole as one work
\* item with shot number 1
C25_FencedStringExtracted ==
  StringNormalised => IF Includes(lastOutput.s, FENCE) THEN IsExtraction ELSE IsWholeString

\* C25 amended: a string with triple-backtick fences whose markdown
\* extraction yields at least one work item gives that extraction; every
\* other string, one whose blocks are all discarded included, is wrapped
\* whole as one work item with shot number 1
C25_ExtractionElseWholeString ==
  StringNormalised =>
    IF Includes(lastOutput.s, FENCE) /\ ExtractedBlocks # <<>>
    THEN IsExtraction
    ELSE IsWholeString

\* A string whose only fenced block is discarded was wrapped whole
C25_DiscardedBlockWrappedWhole ==
  /\ StringNormalised
  /\ lastOutput = Str(MARKDOWN_SHORT_BLOCK)
  /\ IsWholeString

(* -------------------------- object upstream --------------------------- *)

\* An array whose first element is an object containing a prompt key
IsPromptArray(value) ==
  /\ value.t = "array"
  /\ value.a # <<>>
  /\ value.a[1].t = "object"
  /\ "prompt" \in DOMAIN value.a[1].v

\* The first property of x, in enumeration order, that is such an array; 0
\* when x has none
FirstPromptArray(x) ==
  LET hits == {j \in 1..Len(x.k) : IsPromptArray(x.v[x.k[j]])}
  IN IF hits = {} THEN 0 ELSE CHOOSE j \in hits : \A h \in hits : j <= h

\* The work items are the entries of arr, one each, with the entries' prompts
MapsArray(arr) ==
  /\ Len(prompts) = Len(arr)
  /\ \A j \in 1..Len(arr) : prompts[j].prompt = Prop(arr[j], "prompt")

\* What the property scan and the single-prompt case give for the object x
ScanResult(x) ==
  IF FirstPromptArray(x) # 0 THEN MapsArray(x.v[x.k[FirstPromptArray(x)]].a)
  ELSE ("prompt" \in DOMAIN x.v) =>
         Len(prompts) = 1 /\ prompts[1].prompt = x.v["prompt"]

\* The normaliser itself has returned the work items
Normalised == ViaNormaliser /\ NormaliserReturned

\* A sequence is mapped element by element, an imagePrompts array entry by
\* entry: both come before the property scan
SequencesFirst ==
  /\ lastOutput.t = "array" => Len(prompts) = Len(lastOutput.a)
  /\ (lastOutput.t = "object" /\ IsArray(Prop(lastOutput, "imagePrompts"))
        /\ ~(IsVideo /\ HasImages(lastOutput)))
       => MapsArray(Prop(lastOutput, "imagePrompts").a)

\* C26 as stated: for an object that is no sequence and has no imagePrompts
\* array the normaliser maps the first property that is an array of prompt
\* objects, and builds a single work item from the object's own prompt only
\* when no property is one; a sequence and an imagePrompts array come first
C26_FirstPromptArrayMapped ==
  Normalised =>
    /\ SequencesFirst
    /\ (lastOutput.t = "object" /\ ~IsArray(Prop(lastOutput, "imagePrompts")))
         => ScanResult(lastOutput)

\* C26 amended: the same, for an object that in the video normaliser has no
\* images array either: there an images array comes before the sequence, the
\* imagePrompts array and the scan
C26_FirstPromptArrayAfterImages ==
  Normalised =>
    /\ SequencesFirst
    /\ (/\ lastOutput.t = "object"
        /\ ~IsArray(Prop(lastOutput, "imagePrompts"))
        /\ ~(IsVideo /\ HasImages(lastOutput)))
         => ScanResult(lastOutput)

\* An object with two arrays of prompt objects was mapped from the first
C26_FirstOfTwoArraysMapped ==
  /\ Normalised
  /\ lastOutput = TWO_PROMPT_ARRAYS
  /\ Len(prompts) = 1
  /\ prompts[1].prompt = Str(<<"p", "3">>)

\* The edges of a workflow whose two ends are nodes of it
SoundEdges(wf) == {e \in wf.edges : e.source \in wf.nodes /\ e.target \in wf.nodes}

\* The nodes and edges of two workflows are the same
SameTopology(a, b) == a.nodes = b.nodes /\ a.edges = b.edges

\* No save of the run has replaced the nodes or the edges
TopologyUntouched == \A k \in 1..Len(saves) : saves[k].updates = "none"

\* The topology the hook must hold after loading the stored workflow: the
\* stored nodes, and the stored edges without those the validator removes
\* (all of them when it removes none)
TopologyAfterLoad == [nodes |-> stored.nodes, edges |-> SoundEdges(stored)]

\* C27: when a stored workflow is loaded and the validator removes edges
\* (removedCount > 0), the workflow the hook holds, and every workflow it then
\* persists, has the cleaned nodes and edges; when it removes none
\* (removedCount = 0) the loaded nodes and edges are kept unchanged.
C27_LoadedTopologyCleaned ==
  (hookPc = "loaded" /\ TopologyUntouched) =>
    /\ SameTopology(workflow, TopologyAfterLoad)
    /\ \A r \in 1..Len(requests) : SameTopology(requests[r].payload, TopologyAfterLoad)
    /\ (cleanupInvalidEdges(stored.nodes, stored.edges).removedCount = 0
          => SameTopology(workflow, stored))

\* A workflow stored with an edge to a missing node was loaded and saved again
C27_CleanedWorkflowSaved ==
  /\ hookPc = "loaded"
  /\ TopologyUntouched
  /\ cleanupInvalidEdges(stored.nodes, stored.edges).removedCount > 0
  /\ workflow.edges # stored.edges
  /\ requests # <<>>

\* The time the timeout set by call k is due
DueAt(k) == saves[k].at + DEBOUNCE_MS

\* Call k is a saveWorkflow call that no later call follows before its
\* timeout is due: the last call of its burst
LastOfBurst(k) ==
  /\ ~saves[k].immediate
  /\ (k < Len(saves) => saves[k + 1].at > DueAt(k))

\* The persist requests the timeout of call k has sent
RequestsOf(k) == {r \in 1..Len(requests) : requests[r].timer = k}

\* C28: auto-save is debounced and last-write-wins: at most one save timer is
\* pending at any time, and it is the timer of the latest call (every call
\* cancels the timer pending before it); every debounced persist request is
\* sent 1 s after a saveWorkflow call that no later call followed within that
\* second, and carries the state of that call; the last call of a burst gets
\* exactly one such request once its second has passed, whatever was written
\* before.
C28_DebouncedLastWriteWins ==
  /\ Cardinality(timers) <= 1
  /\ \A t \in timers :
       /\ t.id = Len(saves)
       /\ t.id = saveTimeout
       /\ ~saves[t.id].immediate
       /\ t.payload = saves[t.id].state
       /\ t.deadline = DueAt(t.id)
  /\ \A r \in 1..Len(requests) :
       requests[r].timer # 0 =>
         LET k == requests[r].timer
         IN /\ k \in 1..Len(saves)
            /\ ~saves[k].immediate
            /\ requests[r].at = DueAt(k)
            /\ requests[r].payload = saves[k].state
            /\ \A later \in (k + 1)..Len(saves) : saves[later].at >= DueAt(k)
  /\ \A k \in 1..Len(saves) :
       /\ Cardinality(RequestsOf(k)) <= 1
       /\ (LastOfBurst(k) /\ now > DueAt(k)) => Cardinality(RequestsOf(k)) = 1

\* Two saveWorkflow calls half a second apart were followed by one persist
\* request only, a second after the later call and with its state
C28_BurstSavedOnce ==
  /\ Len(saves) = 2
  /\ ~saves[1].immediate
  /\ ~saves[2].immediate
  /\ saves[2].at > saves[1].at
  /\ saves[2].at < DueAt(1)
  /\ saves[1].state # saves[2].state
  /\ Len(requests) = 1
  /\ requests[1].at = DueAt(2)
  /\ requests[1].payload = saves[2].state

\* The node executed after the k-th one, or the node that is to be executed
NodeAfter(k) == IF k < Len(executed) THEN executed[k + 1] ELSE current

\* The edges that leave node with the given branch label
EdgesLabelled(node, label) == {e \in graph : e.source = node /\ e.label = label}

\* The branch `budget_tier === 'low'` must take: true for 'low', false otherwise
ExpectedBranch == IF variables.budget_tier = "low" THEN "true" ELSE "false"

\* C29: at a condition node the engine evaluates the expression over the run
\* variables and follows the edge labelled true when it holds and false
\* otherwise (budget_tier === 'low': 'low' follows true, 'high' follows false);
\* when no edge has the resolved label the run fails with GraphError and no
\* further node is executed.
C29_ConditionFollowsLabelledEdge ==
  \A k \in 1..Len(executed) :
    NodeType[executed[k]] = "condition" =>
      IF EdgesLabelled(executed[k], ExpectedBranch) = {}
      THEN k = Len(executed) /\ runStatus = "failed"
      ELSE /\ \E e \in EdgesLabelled(executed[k], ExpectedBranch) : NodeAfter(k) = e.target
           /\ (k = Len(executed) => runStatus = "running")

\* With budget_tier 'high' the check had a true edge and no false edge: the
\* run failed at the condition node
C29_FalseBranchAbsent ==
  /\ variables.budget_tier = "high"
  /\ EdgesLabelled("check", "true") # {}
  /\ EdgesLabelled("check", "false") = {}
  /\ Len(executed) = 2
  /\ executed[2] = "check"
  /\ runStatus = "failed"

\* The edges of the workflow that leave the k-th executed node
EdgesFrom(k) == {e \in graph : e.source = executed[k]}

\* The k-th executed node is neither a condition node nor an end node
PlainNode(k) == NodeType[executed[k]] \notin {"condition", "end"}

\* The run went on from the k-th executed node along its single outgoing edge
Continued(k) ==
  /\ \E e \in EdgesFrom(k) : NodeAfter(k) = e.target
  /\ (k = Len(executed) => runStatus = "running")

\* The run stopped at the k-th executed node with the given status
StoppedWith(k, status) == k = Len(executed) /\ runStatus = status

\* C30 as stated: at a node that is not a condition node the single outgoing
\* edge is followed, zero or more than one outgoing edge is a GraphError, and
\* at the same time the run ends normally at an end node or when no outgoing
\* edge exists, so that the outcome is the same for every run.
C30_OutcomeDeterminedByRules ==
  \A k \in 1..Len(executed) :
    /\ PlainNode(k) =>
         IF Cardinality(EdgesFrom(k)) = 1 THEN Continued(k) ELSE StoppedWith(k, "failed")
    /\ (NodeType[executed[k]] = "end" \/ (PlainNode(k) /\ EdgesFrom(k) = {}))
         => StoppedWith(k, "ended")

\* C30, amended: at a node that is neither a condition node nor an end node
\* the single outgoing edge is followed and more than one outgoing edge is a
\* GraphError; at an end node the run ends normally; at such a node without
\* an outgoing edge the run stops and nothing further is executed, with
\* GraphError by one rule and normally by the other. The outcome is uniquely
\* determined everywhere but in that last case.
C30_OutcomeDeterminedButForNoEdge ==
  \A k \in 1..Len(executed) :
    /\ PlainNode(k) =>
         CASE Cardinality(EdgesFrom(k)) = 1 -> Continued(k)
           [] Cardinality(EdgesFrom(k)) > 1 -> StoppedWith(k, "failed")
           [] OTHER -> StoppedWith(k, "failed") \/ StoppedWith(k, "ended")
    /\ NodeType[executed[k]] = "end" => StoppedWith(k, "ended")

\* The run followed the single edge out of the start node and stopped
\* normally at a tool node that has no outgoing edge
C30_EndedWithoutOutgoingEdge ==
  /\ Len(executed) = 2
  /\ Continued(1)
  /\ PlainNode(2)
  /\ EdgesFrom(2) = {}
  /\ runStatus = "ended"

\* A result with success = false
Failed(r) == ~r.success

\* The number of results of a list with success = true / success = false
CountSucceeded(list) == Len(SelectSeq(list, Succeeded))

CountFailed(list) == Len(SelectSeq(list, Failed))

\* C31: at every point of a batch the counters agree with the result list,
\* and so do the totals of the returned outcome: totalGenerated is the number
\* of results with success = true, totalFailed the number with success =
\* false, their sum the length of the list (and totalRequested, for image).
C31_CountersAgreeWithResults ==
  /\ successCount = CountSucceeded(results)
  /\ failCount = CountFailed(results)
  /\ successCount + failCount = Len(results)
  /\ (executor \in {"image", "video", "runway"} /\ outcome.returned) =>
       /\ outcome.totalGenerated = CountSucceeded(OutcomeList)
       /\ outcome.totalFailed = CountFailed(OutcomeList)
       /\ outcome.totalGenerated + outcome.totalFailed = Len(OutcomeList)
       /\ (executor = "image" => outcome.totalRequested = Len(OutcomeList))

\* A batch was returned with both saved and failed items
C31_MixedBatchReturned ==
  /\ executor \in {"image", "video"}
  /\ outcome.returned
  /\ outcome.totalGenerated > 0
  /\ outcome.totalFailed > 0

\* C32: in every video batch outcome the stitching status and the deliverable
\* agree: finalVideo is defined if and only if the status is "success";
\* "skipped" occurs only when no clip succeeded and "failed" only when at
\* least two clips succeeded.
C32_StatusAgreesWithDeliverable ==
  VideoDone =>
    /\ outcome.stitchingStatus \in {"success", "failed", "skipped"}
    /\ outcome.finalVideo.defined <=> outcome.stitchingStatus = "success"
    /\ outcome.stitchingStatus = "skipped" => CountSucceeded(outcome.clips) = 0
    /\ outcome.stitchingStatus = "failed" => CountSucceeded(outcome.clips) >= 2

\* A batch with two saved clips and a failed one came back with status
\* "failed" and no deliverable
C32_FailedWithTwoClips ==
  /\ VideoDone
  /\ outcome.stitchingStatus = "failed"
  /\ ~outcome.finalVideo.defined
  /\ CountSucceeded(outcome.clips) = 2
  /\ CountFailed(outcome.clips) >= 1

RequestsFor(j) == {k \in 1..Len(calls) : calls[k].item = j}

\* The batch is between two items or over
BetweenItems == pc \in {"loop", "done"}

\* The result is a failure raised before the provider was called: the source
\* image could not be read, or the prompt was not a string
FailedBeforeRequest(r) ==
  /\ ~r.success
  /\ r.error \in {Str(S_ENOENT), Str(S_NOT_A_FUNCTION), Str(S_CANNOT_READ)}

\* C34 as stated: each work item of a batch leads to exactly one generation
\* request, a failed item is never retried, and the number of generation
\* requests of a batch equals the number of results.
C34_OneRequestPerItem ==
  /\ \A j \in 1..Len(results) : Cardinality(RequestsFor(j)) = 1
  /\ BetweenItems => Len(calls) = Len(results)

\* C34, amended: each work item of a batch leads to at most one generation
\* request and to one result; a failed item, also one that failed with a
\* rate-limit error, is never retried, so the requests never outnumber the
\* results, and an item without a request is one that failed before its
\* request was sent.
C34_AtMostOneRequestPerItem ==
  /\ \A j \in 1..Len(promptsToGenerate) : Cardinality(RequestsFor(j)) <= 1
  /\ \A k \in 1..Len(calls) : calls[k].item \in 1..(Len(results) + 1)
  /\ \A j \in 1..Len(results) : RequestsFor(j) = {} => FailedBeforeRequest(results[j])
  /\ BetweenItems => Len(calls) <= Len(results)

\* A rate-limited item was followed by the next item, and an item whose
\* source image is not on disk got a result without a request
C34_ResultWithoutRequest ==
  /\ pc = "done"
  /\ Len(calls) < Len(results)
  /\ \E j \in 1..Len(results) : RequestsFor(j) = {} /\ results[j].error = Str(S_ENOENT)

\* The value an update of the given kind carries
UpdateValue(kind) == (CHOOSE u \in Updates : u.kind = kind).value

\* Calls k and k + 1 are saveWorkflow calls made without a render in between,
\* one replacing the nodes and the other the edges
TwoUpdatesInOneRender(k) ==
  /\ k + 1 <= Len(saves)
  /\ ~saves[k].immediate /\ ~saves[k + 1].immediate
  /\ saves[k + 1].base = saves[k].base
  /\ {saves[k].updates, saves[k + 1].updates} = {"nodes", "edges"}

\* The workflow holds the nodes of updateNodes and the edges of updateEdges
HoldsBoth(wf) == wf.nodes = UpdateValue("nodes") /\ wf.edges = UpdateValue("edges")

\* C35: when updateNodes(N) and updateEdges(E) are called one after the other
\* before the hook renders again, no update is lost: the workflow state and
\* the payload persisted for the later call hold both N and E.
C35_NoUpdateLost ==
  \A k \in 1..Len(saves) :
    TwoUpdatesInOneRender(k) =>
      /\ HoldsBoth(saves[k + 1].state)
      /\ (Len(saves) = k + 1 => HoldsBoth(workflow))
      /\ \A r \in RequestsOf(k + 1) : HoldsBoth(requests[r].payload)

\* The call whose state persist request r carries
CallOf(r) == requests[r].payload.rev

\* C36: saveWorkflowImmediate cancels the pending debounced save: after the
\* call no timer scheduled before it is pending or fires, so no state older
\* than the one saved immediately is sent to the store after the immediate
\* save; the call returns true when the persist request completes and false
\* when it throws.
C36_ImmediateSaveCancelsPending ==
  /\ \A k \in 1..Len(saves) :
       saves[k].immediate =>
         /\ \A t \in timers : t.id > k
         /\ saves[k].returned = (IF saves[k].completed THEN Bool(TRUE) ELSE Bool(FALSE))
  /\ \A r1, r2 \in 1..Len(requests) :
       (r1 < r2 /\ requests[r1].timer = 0) =>
         /\ CallOf(r2) > CallOf(r1)
         /\ requests[r2].timer = 0 \/ requests[r2].timer > CallOf(r1)

\* A debounced save was pending when saveWorkflowImmediate was called; its
\* persist request threw, the call returned false, and a second passed
\* without any other request
C36_PendingSaveCancelled ==
  /\ Len(saves) = 2
  /\ ~saves[1].immediate
  /\ saves[2].immediate
  /\ saves[2].at < DueAt(1)
  /\ saves[2].returned = Bool(FALSE)
  /\ now > DueAt(1)
  /\ Len(requests) = 1

\* Every load that was started is over
AllLoadsDone == loads # <<>> /\ \A n \in 1..Len(loads) : loads[n].pc = "done"

\* C37: if workflowId changes while an earlier load is still in flight, the
\* workflow the hook finally holds is the one for the latest workflowId,
\* whatever the order in which the fetches of the two loads complete.
C37_LatestWorkflowIdWins ==
  (AllLoadsDone /\ loads[Len(loads)].path = "loaded") =>
    workflow = LoadedWorkflow(StoreOf(workflowId))

\* Load n ends in this step
LoadEnds(n) == n \in 1..Len(loads') /\ loads'[n].pc = "done" /\ (n > Len(loads) \/ loads[n].pc # "done")

\* The workflow createNewWorkflow sets: one start node and no edges
SingleStartNode(wf) == Cardinality(wf.nodes) = 1 /\ wf.edges = {}

\* C38: every load started by useWorkflow ends, and ends with loading = false
\* and a workflow that is not null, on each path: without a workflowId, with
\* a workflow that is not in the list and after a fetch or JSON error the
\* workflow is a new one with a single start node and no edges; after a
\* successful load it is the stored one.
C38_EveryLoadEnds ==
  /\ [][\A n \in 1..MaxLoads :
          LoadEnds(n) =>
            /\ loading' = FALSE
            /\ workflow' # NoWorkflow
            /\ loads'[n].path \in {"noId", "notFound", "error"} => SingleStartNode(workflow')
            /\ loads'[n].path = "loaded" => workflow'.nodes = StoreOf(loads'[n].id).nodes]_vars
  /\ \A n \in 1..MaxLoads : (Len(loads) >= n) ~> (Len(loads) >= n /\ loads[n].pc = "done")
  /\ [](AllLoadsDone => ~loading /\ workflow # NoWorkflow)

\* A load fell back to a new workflow after a fetch error, and a later load
\* of a stored workflow ended too
C38_FallbackThenLoaded ==
  /\ Len(loads) = 2
  /\ loads[1].path = "error"
  /\ loads[2].path = "loaded"
  /\ ~loading

\* The branch label of an edge, "none" when the edge has none
LabelOf(edge) == IF HasField(edge, "label") THEN edge.label ELSE "none"

\* The edge kept the id, source, target and branch label of the original
RoutingKept(saved, original) ==
  /\ saved.id = original.id
  /\ saved.source = original.source
  /\ saved.target = original.target
  /\ LabelOf(saved) = LabelOf(original)

\* The lists of a workflow have the routing of the workflow that was saved,
\* position by position
SameRouting(wf, original) ==
  /\ Len(wf.nodes) = Len(original.nodes)
  /\ \A k \in 1..Len(original.nodes) :
       wf.nodes[k].id = original.nodes[k].id /\ wf.nodes[k].type = original.nodes[k].type
  /\ Len(wf.edges) = Len(original.edges)
  /\ \A k \in 1..Len(original.edges) : RoutingKept(wf.edges[k], original.edges[k])

\* C39: saving and reloading a workflow preserves its routing: the payload of
\* sanitizeWorkflowForSave keeps, for every edge, its id, source, target and
\* branch label, and every node's id and type, in order.
C39_RoutingSurvivesSave ==
  /\ \A r \in 1..Len(requests) : SameRouting(requests[r].payload, rendered)
  /\ hookPc = "reloaded" => SameRouting(workflow, rendered)

\* The list an approval node hands on: approvedImages when it is an array,
\* else selectedImages when it is an array
HandedOn(x) ==
  IF x.t = "object" /\ IsArray(Prop(x, "approvedImages"))
  THEN [present |-> TRUE, list |-> Prop(x, "approvedImages").a]
  ELSE IF x.t = "object" /\ IsArray(Prop(x, "selectedImages"))
  THEN [present |-> TRUE, list |-> Prop(x, "selectedImages").a]
  ELSE [present |-> FALSE, list |-> <<>>]

\* The work item k repeats entry k of the list: its prompt and its source image
TakenFrom(list, k) ==
  /\ Truthy(Prop(list[k], "originalPrompt")) => prompts[k].prompt = Prop(list[k], "originalPrompt")
  /\ prompts[k].sourceImage = Prop(list[k], "localPath")

====
